---------------------------- MODULE Spec2Model ----------------------------
(***************************************************************************)
(* A model of the browser scripts of LiveLinen.                            *)
(*                                                                         *)
(* Part 1: the component form, static/components/js/component_form.js.    *)
(* The file holds two self-contained scripts (lines 4-694 and 699-1117);   *)
(* both wait for the page configuration and both register their listeners  *)
(* on the same elements, so every change event runs the handler of the     *)
(* first script and then the handler of the second one.  The two scripts   *)
(* are the same code, except that the first one also loads the colors.     *)
(*                                                                         *)
(* Text is a sequence of one-character strings (<<"1","0",".","5">>), so   *)
(* that parsing and formatting are computed.  Identifiers (category,       *)
(* quality, type ids, labels) are sequences of one token.                  *)
(*                                                                         *)
(* Numbers: the script computes with IEEE doubles.  The model computes     *)
(* with exact rationals and rounds exact halves away from zero, which is   *)
(* what Number.prototype.toFixed does on an exactly representable value;   *)
(* at a decimal half that a double cannot represent the script may round   *)
(* the last digit the other way.  No formula below depends on the          *)
(* direction of that rounding.                                             *)
(***************************************************************************)
EXTENDS Integers, Sequences, FiniteSets, Bags, TLC

VARIABLES
  \* ---- the component form: the elements initForm looks up (lines 38-55)
  categoryEl,      \* value of the category select
  qualityEl,       \* [options, value] of the quality select
  productEl,       \* [options, value] of the product/type select
  logisticsEl,     \* value of the logistics percent input
  costEl,          \* value of the cost per unit input
  widthEl,         \* value of the width input
  widthUomEl,      \* value of the width unit input
  finalPriceEl,    \* value of the final price per unit input
  pricePerSqftEl,  \* value of the price per square foot input
  finalCostEl,     \* value of the final cost input
  hiddenCT,        \* value of the hidden content type field
  hiddenOID,       \* value of the hidden object id field
  typeEl,          \* value of the type input
  nameField,       \* value of the name input
  colorsEl,        \* the colors rendered into #component-colors
  componentId,     \* the component id of the page path ("" on the create page)
  initialQuality,  \* local of the first script's initialStateRestore
  initialProduct,  \* local of the first script's initialStateRestore
  pending,         \* the requests in flight, a bag: each holds what its awaiting
                   \* function captured before the await
  events,          \* the number of user events so far
  \* ---- history, written by the model only
  serverSet,       \* the derived fields whose content came from a server response
  last,            \* the handler that ran last, and what it handled
  \* ---- computeClientMetrics alone
  mIn,             \* the arguments of the computeClientMetrics call
  mOut,            \* what the call returned (NoMetrics before the call)
  \* ---- the costing form: the elements and locals of part_004 (lines 97-128)
  componentSelect, \* value of the component select
  nameEl,          \* value of the name input, one of the fields a SKU is built of
  colorsContainer, \* [kind, boxes]: what #component-colors shows
  skuPreviewList,  \* [kind, items]: what the SKU preview list shows
  skuInput,        \* value of #id_sku
  skuPreviewTimer, \* the number of armed timers of the debounced preview
  initTimers,      \* the timers armed at load and not fired yet, in firing order
  cPending,        \* the requests of the costing form in flight
  batches,         \* the calls of updateSkuPreviews that issued requests
  cEvents,         \* the number of user events on the costing form so far
  \* ---- history of the costing form, written by the model only
  asked,           \* per triggering event, the requests sent to each endpoint
  armed,           \* the debounced calls since a batch last fired
  componentFields, \* the component whose width, price and final cost are shown
  clast,           \* the step that ran last on the costing form
  \* ---- the requests of the scripts that change data
  documentCookie,  \* document.cookie, a sequence of [name, value]
  cfgCsrfToken,    \* csrfToken of the page configuration of the component form
  csrfInput,       \* value of the csrfmiddlewaretoken input (Null without one)
  sent,            \* the request sent last
  call,            \* the call that awaits the answer to it
  response,        \* the answer received last
  fOut,            \* how the safeFetch call ended
  alerted,         \* the text of the alert the color handlers showed
  \* ---- the controls that disable themselves while their request runs
  buttons,         \* per control: what is shown, disabled, its label, dataset.orig
  inFlight,        \* the requests of the controls in flight
  issued,          \* per control, the requests and form submissions issued so far
  ended,           \* per control, how its request ended last
  pageLeft,        \* per page, whether a navigation has replaced the document
  reloadTimer,     \* the 900 ms timer of the attendance handler is armed
  stageRow,        \* the stage rows of the work order page
  shownText,       \* per page, the message shown last (alert, feedback, error box)
  colorWidget,     \* the color widget: its rendering count and the text of its input
  clicks,          \* the number of user events on the controls so far
  ctlLast,         \* the step that ran last on the controls
  \* ---- the issue-material form
  issueRows,       \* the rows of #issue-lines, in document order
  qtyType,         \* the type attribute of the quantity inputs
  totalForms,      \* value of the TOTAL_FORMS input of the formset
  hasDelete,       \* whether the rows carry the DELETE checkbox of the formset
  itemRequests,    \* the items-by-type requests in flight: [row, type]
  nextRow,         \* the identity of the row element created next
  issueSubmit,     \* what the last submit event led to
  issueAlert,      \* the text of the alert shown last
  issueEvents,     \* the number of user events on the form so far
  issueLast,       \* the step that ran last on the form
  \* ---- the accessory line of the costing form
  accessorySelect,         \* value of the accessory select
  accessoryQuantityEl,     \* value of the accessory quantity input
  accessoryUnitPriceHidden, \* value of the unit price fields
  accessoryLineTotalHidden, \* value of the line total fields
  accessoryStockDisplay,   \* value of the stock display
  accPending,              \* the compute_accessory_line requests in flight
  accEvents,               \* the number of user events on the accessory so far
  accLast,                 \* the step that ran last on the accessory
  \* ---- the dashboard charts
  chartScript,  \* the script of the page: "dashboard.js" or "part_001"
  chartDefined,  \* typeof Chart !== "undefined"
  readyState,  \* document.readyState
  canvases,  \* the chart canvases of the page
  chartsState,  \* window.__LIVE_LINEN_CHARTS as the template injects it
  instances,  \* the registry of chart instances of the script
  liveCharts,  \* the chart instances created and not destroyed
  nextChart,  \* the identity of the chart instance created next
  chartTimers,  \* the attempts of each interval timer waiting for Chart
  domListeners,  \* the DOMContentLoaded listeners not yet called
  scriptLoads,  \* the number of times the script ran so far
  datasets,  \* the datasets of each stock-used chart: label and hidden flag
  orderSelect,  \* the select #orderSelect: present, its options and value
  selectListeners,  \* the charts of the change listeners of #orderSelect
  toggleListeners,  \* the charts of the change listeners of the checkboxes
  seriesBoxes,  \* whether the checkbox of each base series is checked
  stockEvents,  \* the changes the user made to the select and checkboxes
  fnRuns,  \* how often the function handed to initWhenReady ran
  chartLast, \* the step that ran last on the charts
  \* ---- the chat client (staticfiles/chat/js/chat.js 39-45)
  socket,  \* readyState of the current WebSocket, "null" without one
  replaced,  \* readyState of each replaced WebSocket that is not closed yet
  reconnectAttempts,  \* the reconnects scheduled since a socket opened
  reconnectTimer,  \* the timeout that calls connect: [pending, wait]
  heartbeatTimer,  \* whether the ping interval runs
  heartbeatTimeoutTimer,  \* whether the timeout of a ping is pending
  manualClose,  \* the user closed the chat
  hidden,  \* document.hidden
  wsStatus,  \* the status the page shows
  pinged,  \* a ping on the current socket is unanswered
  chatEvents,  \* the number of user events on the chat so far
  chatLast,  \* the step that ran last on the chat
  \* ---- the polling loops (staticfiles/components/js/component_form.js 16-28,
  \* ---- static/issue_material/issue.js 85-102)
  formConfig,  \* window.COMPONENT_FORM_CONFIG with its urls is there
  waitTimer,  \* the pending call of waitForConfig: "none", "ready" or "retry"
  waitTries,  \* the argument tries of the call a pending retry makes
  initFormCalls,  \* how often initForm was called
  polls,  \* the prefill interval of a row: [id, attempts, live, selected]
  pollLast  \* the step that ran last on a polling loop

formVars == <<categoryEl, qualityEl, productEl, logisticsEl, costEl, widthEl,
              widthUomEl, finalPriceEl, pricePerSqftEl, finalCostEl, hiddenCT,
              hiddenOID, typeEl, nameField, colorsEl, componentId, initialQuality,
              initialProduct, pending, events, serverSet, last>>

metricVars == <<mIn, mOut>>

costingVars == <<componentSelect, nameEl, colorsContainer, skuPreviewList, skuInput,
                 skuPreviewTimer, initTimers, cPending, batches, cEvents, asked,
                 armed, componentFields, clast>>

fetchVars == <<documentCookie, cfgCsrfToken, csrfInput, sent, call, response, fOut,
               alerted>>

controlVars == <<buttons, inFlight, issued, ended, pageLeft, reloadTimer, stageRow,
                 shownText, colorWidget, clicks, ctlLast>>

issueVars == <<issueRows, qtyType, totalForms, hasDelete, itemRequests, nextRow,
               issueSubmit, issueAlert, issueEvents, issueLast>>

accVars == <<accessorySelect, accessoryQuantityEl, accessoryUnitPriceHidden,
             accessoryLineTotalHidden, accessoryStockDisplay, accPending, accEvents,
             accLast>>

chartVars == <<chartScript, chartDefined, readyState, canvases, chartsState, instances,
               liveCharts, nextChart, chartTimers, domListeners, scriptLoads,
               datasets, orderSelect, selectListeners, toggleListeners,
               seriesBoxes, stockEvents, fnRuns, chartLast>>

chatVars == <<socket, replaced, reconnectAttempts, reconnectTimer, heartbeatTimer,
              heartbeatTimeoutTimer, manualClose, hidden, wsStatus, pinged, chatEvents,
              chatLast>>

pollVars == <<formConfig, waitTimer, waitTries, initFormCalls, polls, pollLast>>

\* the variables of the pages modelled after the forms
pageVars == <<controlVars, issueVars, accVars, chartVars, chatVars, pollVars>>

vars == <<formVars, metricVars, costingVars, fetchVars, pageVars>>

\* the controls: the three stage-action forms of a stage row, the mark-read
\* buttons of two notifications, the attendance button, a form of class
\* ajax-form and the Add button of the color widget
StageForms == {"in_progress", "complete", "confirm_received"}
Notifs == {"notif1", "notif2"}
Controls == StageForms \cup Notifs \cup {"attendance", "ajaxForm", "addColor"}
ControlPages == {"workorder", "notifications", "dashboard", "component"}

\* no control has been used
NoControls ==
  /\ buttons = [c \in Controls |->
                 [shown |-> "button", disabled |-> FALSE, label |-> "label", orig |-> ""]]
  /\ inFlight = {}
  /\ issued = [c \in Controls |-> 0]
  /\ ended = [c \in Controls |-> "none"]
  /\ pageLeft = [p \in ControlPages |-> FALSE]
  /\ reloadTimer = FALSE
  /\ stageRow = [status |-> "Pending", confirmDisabled |-> TRUE, hint |-> FALSE,
                 ack |-> FALSE]
  /\ shownText = [p \in ControlPages |-> ""]
  /\ colorWidget = [gen |-> 0, input |-> ""]
  /\ clicks = 0
  /\ ctlLast = [kind |-> "none", control |-> "none", result |-> "none"]

\* the issue-material form is not shown
NoIssueForm ==
  /\ issueRows = <<>>
  /\ qtyType = "text"
  /\ totalForms = 0
  /\ hasDelete = TRUE
  /\ itemRequests = {}
  /\ nextRow = 1
  /\ issueSubmit = "none"
  /\ issueAlert = <<>>
  /\ issueEvents = 0
  /\ issueLast = [kind |-> "none", row |-> 0]

\* the page has no accessory select
NoAccessory ==
  /\ accessorySelect = <<>>
  /\ accessoryQuantityEl = <<>>
  /\ accessoryUnitPriceHidden = <<>>
  /\ accessoryLineTotalHidden = <<>>
  /\ accessoryStockDisplay = <<>>
  /\ accPending = {}
  /\ accEvents = 0
  /\ accLast = [kind |-> "none", outcome |-> "none",
                qty |-> [nan |-> FALSE, num |-> 0, den |-> 1]]

NoCharts ==
  /\ chartScript = "dashboard.js"
  /\ chartDefined = TRUE
  /\ readyState = "complete"
  /\ canvases = {}
  /\ chartsState = [defined |-> FALSE, pie |-> FALSE, line |-> FALSE]
  /\ instances = [defined |-> FALSE,
                  at |-> [k \in {"inventoryPie", "ordersLine", "stockUsed"} |-> 0]]
  /\ liveCharts = {}
  /\ nextChart = 1
  /\ chartTimers = <<>>
  /\ domListeners = 0
  /\ scriptLoads = 0
  /\ datasets = <<>>
  /\ orderSelect = [present |-> TRUE, options |-> <<>>, value |-> ""]
  /\ selectListeners = <<>>
  /\ toggleListeners = <<>>
  /\ seriesBoxes = [l \in {<<"Fabric added">>, <<"Accessories used">>,
                             <<"Printed added">>} |-> TRUE]
  /\ stockEvents = 0
  /\ fnRuns = 0
  /\ chartLast = "none"

NoChat ==
  /\ socket = "null"
  /\ replaced = <<>>
  /\ reconnectAttempts = 0
  /\ reconnectTimer = [pending |-> FALSE, wait |-> 0]
  /\ heartbeatTimer = FALSE
  /\ heartbeatTimeoutTimer = FALSE
  /\ manualClose = FALSE
  /\ hidden = FALSE
  /\ wsStatus = ""
  /\ pinged = FALSE
  /\ chatEvents = 0
  /\ chatLast = [kind |-> "none", made |-> 0, manual |-> FALSE, nth |-> 0]

\* no polling loop was started
NoPolls ==
  /\ formConfig = TRUE
  /\ waitTimer = "none"
  /\ waitTries = 0
  /\ initFormCalls = 0
  /\ polls = <<>>
  /\ pollLast = "none"

\* the pages modelled after the forms are not in use
NoOtherPages ==
  NoControls /\ NoIssueForm /\ NoAccessory /\ NoCharts /\ NoChat /\ NoPolls

\* no script has sent a request that changes data
NoFetch ==
  /\ documentCookie = <<>>
  /\ cfgCsrfToken = <<>>
  /\ csrfInput = <<>>
  /\ sent = [script |-> "none", via |-> "none", method |-> "none", csrf |-> <<>>]
  /\ call = "none"
  /\ response = [status |-> 0, text |-> <<>>]
  /\ fOut = [kind |-> "none", status |-> 0,
             body |-> [type |-> "none", object |-> {}, text |-> <<>>]]
  /\ alerted = <<>>

\* the page shown is not the costing form: its elements are absent and its
\* script does not run
NoCostingForm ==
  /\ componentSelect = <<>>
  /\ nameEl = <<>>
  /\ colorsContainer = [kind |-> "text", content |-> <<>>]
  /\ skuPreviewList = [kind |-> "text", content |-> <<>>]
  /\ skuInput = <<>>
  /\ skuPreviewTimer = 0
  /\ initTimers = <<>>
  /\ cPending = {}
  /\ batches = <<>>
  /\ cEvents = 0
  /\ asked = [event |-> 0, details |-> 0, colors |-> 0]
  /\ armed = 0
  /\ componentFields = <<>>
  /\ clast = [kind |-> "none", outcome |-> "none", comp |-> <<>>, batch |-> 0, idx |-> 0]

-----------------------------------------------------------------------------
(* Text helpers                                                            *)

Digit == <<"0", "1", "2", "3", "4", "5", "6", "7", "8", "9">>

IsDigit(c) == \E i \in 1..10 : Digit[i] = c

DigitVal(c) == (CHOOSE i \in 1..10 : Digit[i] = c) - 1

RECURSIVE Pow10(_)
Pow10(k) == IF k = 0 THEN 1 ELSE 10 * Pow10(k - 1)

Abs(n) == IF n < 0 THEN -n ELSE n

\* String(v || "").replace(/[^0-9.\-]/g, "")
StripNonNumeric(s) == SelectSeq(s, LAMBDA c : IsDigit(c) \/ c = "." \/ c = "-")

CountOf(s, c) == Cardinality({i \in DOMAIN s : s[i] = c})

\* the digits of s read as one integer, the decimal point skipped
RECURSIVE DigitsValue(_)
DigitsValue(s) ==
  IF s = <<>> THEN 0
  ELSE IF s[Len(s)] = "." THEN DigitsValue(SubSeq(s, 1, Len(s) - 1))
  ELSE 10 * DigitsValue(SubSeq(s, 1, Len(s) - 1)) + DigitVal(s[Len(s)])

\* the number of digits after the decimal point
FracDigits(s) ==
  IF CountOf(s, ".") = 0 THEN 0
  ELSE Len(s) - (CHOOSE i \in DOMAIN s : s[i] = ".")

\* Number(s) for a text of digits, points and minus signs: [nan, num, den], the
\* value being num/den.  "" is 0; an optional leading minus, then digits with at
\* most one point and at least one digit; anything else is NaN.
ToNumber(s) ==
  LET body == IF s # <<>> /\ s[1] = "-" THEN Tail(s) ELSE s
      neg  == s # <<>> /\ s[1] = "-"
      ok   == /\ CountOf(body, "-") = 0
              /\ CountOf(body, ".") <= 1
              /\ Len(body) - CountOf(body, ".") >= 1
  IN  IF s = <<>> THEN [nan |-> FALSE, num |-> 0, den |-> 1]
      ELSE IF ~ok THEN [nan |-> TRUE, num |-> 0, den |-> 1]
      ELSE [nan |-> FALSE,
            num |-> IF neg THEN -DigitsValue(body) ELSE DigitsValue(body),
            den |-> Pow10(FracDigits(body))]

\* parseNum of computeClientMetrics: the rational [num, den]; NaN gives the fallback 0
parseNum(v) ==
  LET n == ToNumber(StripNonNumeric(v))
  IN  IF n.nan THEN [num |-> 0, den |-> 1] ELSE [num |-> n.num, den |-> n.den]

\* a / b rounded to the nearest integer, halves away from zero (a >= 0, b > 0)
RoundDiv(a, b) == IF 2 * (a % b) >= b THEN (a \div b) + 1 ELSE a \div b

\* (a * 10^k) / b rounded to the nearest integer, by long division (a >= 0, b > 0)
RECURSIVE LongDiv(_, _, _, _)
LongDiv(q, r, b, k) ==
  IF k = 0 THEN IF 2 * r >= b THEN q + 1 ELSE q
  ELSE LongDiv(10 * q + ((10 * r) \div b), (10 * r) % b, b, k - 1)

RoundDivScaled(a, b, k) == LongDiv(a \div b, a % b, b, k)

\* the decimal digits of n >= 0, at least `width` of them
RECURSIVE NatDigits(_, _)
NatDigits(n, width) ==
  IF n < 10 /\ width <= 1 THEN <<Digit[n + 1]>>
  ELSE Append(NatDigits(n \div 10, width - 1), Digit[(n % 10) + 1])

\* x.toFixed(k) of the number whose value rounded to k decimals is m / 10^k in
\* magnitude; neg: the number is below zero (toFixed writes the sign of the
\* number, also when the digits are all zero)
toFixed(neg, m, k) ==
  (IF neg THEN <<"-">> ELSE <<>>)
    \o NatDigits(m \div Pow10(k), 1) \o <<".">> \o NatDigits(m % Pow10(k), k)

\* String.prototype.toLowerCase on the unit words the forms use
toLowerCase(u) ==
  CASE u = <<"CM">> -> <<"cm">>
    [] u = <<"Inch">> -> <<"inch">>
    [] OTHER -> u

-----------------------------------------------------------------------------
(* computeClientMetrics                                                    *)

CmUnits == {<<"cm">>, <<"centimeter">>, <<"centimetre">>, <<"cms">>}

\* finalPricePerUnit = +(price * (1 + logistics / 100)).toFixed(2), in cents
FinalPriceCents(price, logistics) ==
  LET n == price.num * (100 * logistics.den + logistics.num)
      d == price.den * logistics.den
  IN  IF n < 0 THEN -RoundDiv(-n, d) ELSE RoundDiv(n, d)

\* denom = ((widthInInch * 2.54) / 1.07) / 100 as the rational [num, den], where
\* widthInInch is width / 2.54 for the centimeter units and width otherwise
Denom(width, widthUom) ==
  LET u == toLowerCase(IF widthUom = <<>> THEN <<"inch">> ELSE widthUom)
  IN  IF u \in CmUnits
      THEN [num |-> width.num * 100, den |-> width.den * 10700]
      ELSE [num |-> width.num * 254, den |-> width.den * 10700]

\* a slip: the guard is "denom is not zero" in place of "denom > 0"
PricePerSqftOfAnyDenom(cents, denom) ==
  IF denom.num # 0
  THEN toFixed((cents < 0) # (denom.num < 0),
               RoundDivScaled(Abs(cents) * (denom.den \div 100), Abs(denom.num), 4), 4)
  ELSE toFixed(FALSE, 0, 4)

\* pricePerSqft = denom > 0 ? finalPricePerUnit / denom : 0, then toFixed(4)
\* (finalPricePerUnit is cents / 100)
PricePerSqft(cents, denom) ==
  IF denom.num > 0
  THEN toFixed(cents < 0,
               RoundDivScaled(Abs(cents) * (denom.den \div 100), denom.num, 4), 4)
  ELSE toFixed(FALSE, 0, 4)

computeClientMetrics(priceStr, widthStr, widthUom, logisticsStr) ==
  LET price     == parseNum(priceStr)
      width     == parseNum(widthStr)
      logistics == parseNum(logisticsStr)
      cents     == FinalPriceCents(price, logistics)
      denom     == Denom(width, widthUom)
  IN  [final_price_per_unit |-> toFixed(cents < 0, Abs(cents), 2),
       price_per_sqfoot     |-> PricePerSqft(cents, denom),
       final_cost           |-> toFixed(cents < 0, Abs(cents), 2)]

\* the numeric value of a field text is below zero
IsNegative(t) == ToNumber(StripNonNumeric(t)).num < 0

-----------------------------------------------------------------------------
(* The component form: the page and the server                             *)

\* the sequence s without its element i
RemoveAt(s, i) == [j \in 1..(Len(s) - 1) |-> IF j < i THEN s[j] ELSE s[j + 1]]

Blank == <<>>          \* "", also an absent (undefined, null, "") JSON field
Null  == <<"(null)">>  \* an absent id, value, type or label of a result row

\* the option values of the category select, as the server renders them
CategoryValues == {Blank, <<"fabric">>, <<"TRIM">>}

\* String.prototype.toUpperCase on the category values
toUpperCase(c) == IF c = <<"fabric">> THEN <<"FABRIC">> ELSE c

\* {results: [...]} of qualities_by_category for a category
QualityResults(category) ==
  CASE category = <<"FABRIC">> ->
         <<[id |-> <<"1">>, value |-> Null, label |-> <<"Premium">>],
           [id |-> <<"2">>, value |-> Null, label |-> <<"Basic">>]>>
    [] category = <<"TRIM">> ->
         <<[id |-> <<"2">>, value |-> Null, label |-> <<"Basic">>],
           [id |-> <<"3">>, value |-> <<"v3">>, label |-> Null]>>
    [] OTHER -> <<>>

\* {results: [...]} of types_by_quality for a category and a quality
TypeResults(category, quality) ==
  CASE category = <<"FABRIC">> /\ quality = <<"1">> ->
         <<[id |-> <<"11">>, value |-> Null, type |-> <<"Linen">>, label |-> Null,
            content_type_id |-> <<"7">>],
           [id |-> <<"12">>, value |-> Null, type |-> Null, label |-> <<"Cotton">>,
            content_type_id |-> <<"7">>]>>
    [] category = <<"FABRIC">> /\ quality = <<"2">> ->
         <<[id |-> <<"11">>, value |-> Null, type |-> <<"Linen">>, label |-> Null,
            content_type_id |-> <<"7">>],
           [id |-> <<"13">>, value |-> Null, type |-> Null, label |-> Null,
            content_type_id |-> Blank]>>
    [] category = <<"TRIM">> /\ quality = <<"2">> ->
         <<[id |-> <<"21">>, value |-> Null, type |-> <<"Lace">>, label |-> Null,
            content_type_id |-> <<"8">>]>>
    [] OTHER -> <<>>

\* how a list request ends: the server's rows, {results: []}, or a transport
\* error / non-success status
ListOutcomes == {"ok", "empty", "fail"}

\* the bodies inventory_item answers with; ok = FALSE is the null that
\* fetchInventoryItem returns when the request fails
ItemJson(cost, price, width, uom, fp, sqft, fc, type, label) ==
  [ok |-> TRUE, cost_per_unit |-> cost, price |-> price, width |-> width,
   width_uom |-> uom, final_price_per_unit |-> fp, price_per_sqfoot |-> sqft,
   final_cost |-> fc, type |-> type, label |-> label]

JsonNull == [ItemJson(Blank, Blank, Blank, Blank, Blank, Blank, Blank, Blank, Blank)
               EXCEPT !.ok = FALSE]

ItemResponses ==
  { ItemJson(<<"1", "0">>, Blank, <<"5", "4">>, <<"inch">>, <<"1", "1", ".", "0", "0">>,
             <<"8", ".", "5", "8", "1", "2">>, <<"1", "1", ".", "0", "0">>,
             <<"Linen">>, Blank),
    ItemJson(Blank, <<"1", "2", ".", "5">>, <<"1", "0", "0">>, <<"cm">>, Blank, Blank,
             Blank, Blank, <<"Cotton">>),
    JsonNull }

\* {results: [...]} of colors_list for a component
ColorResults == <<[id |-> <<"c1">>, name |-> <<"Red">>]>>

\* what the user can type into the logistics, cost and width inputs
LogisticsInputs == {<<"1", "0">>, <<"-", "2", "0", "0">>}
CostInputs      == {<<"2", "0">>}
WidthInputs     == {<<"0">>}

\* the pages the server renders: the create page, the edit page of component 7
\* and the create page shown again after a failed validation
Option(value, text, ct, type, label) ==
  [value |-> value, text |-> text, ct |-> ct, type |-> type, label |-> label]

Placeholder(text) == Option(Blank, <<text>>, Blank, Blank, Blank)

Rendered(value) ==
  [options |-> IF value = Blank THEN <<Placeholder("---------")>>
               ELSE <<Placeholder("---------"), Option(value, value, Blank, Blank, Blank)>>,
   value |-> value]

Page(category, quality, product, logistics, component) ==
  [categoryEl |-> category, qualityEl |-> Rendered(quality),
   productEl |-> Rendered(product), logisticsEl |-> logistics, costEl |-> Blank,
   widthEl |-> Blank, widthUomEl |-> Blank, finalPriceEl |-> Blank,
   pricePerSqftEl |-> Blank, finalCostEl |-> Blank, hiddenCT |-> Blank,
   hiddenOID |-> Blank, typeEl |-> Blank, nameField |-> Blank,
   colorsEl |-> <<"not rendered">>, componentId |-> component,
   initialQuality |-> quality, initialProduct |-> product,
   pending |-> EmptyBag, events |-> 0, serverSet |-> {}]

CreatePage == Page(Blank, Blank, Blank, Blank, Blank)

EditPage ==
  [Page(<<"fabric">>, <<"1">>, <<"11">>, <<"1", "0">>, <<"7">>)
     EXCEPT !.costEl = <<"1", "0">>, !.widthEl = <<"5", "4">>,
            !.widthUomEl = <<"inch">>, !.finalPriceEl = <<"1", "1", ".", "0", "0">>,
            !.pricePerSqftEl = <<"8", ".", "5", "8", "1", "2">>,
            !.finalCostEl = <<"1", "1", ".", "0", "0">>, !.hiddenCT = <<"7">>,
            !.hiddenOID = <<"11">>, !.typeEl = <<"Linen">>,
            !.nameField = <<"1", " ", "Linen">>]

RejectedPage == Page(<<"fabric">>, <<"2">>, Blank, Blank, Blank)

Pages == {CreatePage, EditPage, RejectedPage}

-----------------------------------------------------------------------------
(* The requests in flight                                                  *)

MaxInFlight == 3

\* the user events (selections, typed inputs) of one run
MaxEvents == 2

\* kind: the endpoint; script: the script (1 or 2) whose function awaits the
\* answer; cont: "restore" when initialStateRestore awaits that function;
\* category .. logistics: the parameters sent; prevSelected: the local of the
\* load function; stale: history
Request(kind, script, cont, category, quality, ct, oid, logistics, prev) ==
  [kind |-> kind, script |-> script, cont |-> cont, category |-> category,
   quality |-> quality, ct |-> ct, oid |-> oid, logistics |-> logistics,
   prevSelected |-> prev, stale |-> FALSE]

NoRequest == Request("none", 0, "none", Blank, Blank, Blank, Blank, Blank, Blank)

RECURSIVE SumCounts(_, _)
SumCounts(b, S) ==
  IF S = {} THEN 0
  ELSE LET e == CHOOSE x \in S : TRUE IN b[e] + SumCounts(b, S \ {e})

\* history: a list request is stale when a later load of the same select was
\* started for other parameters
Superseded(e, r) ==
  IF e.kind = r.kind /\ r.kind \in {"qualities", "types"}
  THEN [e EXCEPT !.stale = @ \/ <<e.category, e.quality>> # <<r.category, r.quality>>]
  ELSE e

\* history: the requests in flight with the request e replaced by m
Replaced(b, e, m) ==
  IF e = m \/ ~BagIn(e, b) THEN b
  ELSE LET n    == CopiesIn(e, b)
           rest == b (-) [x \in {e} |-> n]
       IN  rest (+) [x \in {m} |-> n]

\* history: the list requests in flight for the select of r, each marked stale
\* when its parameters are not those of r
RECURSIVE MarkedFor(_, _, _)
MarkedFor(b, S, r) ==
  IF S = {} THEN b
  ELSE LET e == CHOOSE x \in S : TRUE
       IN  MarkedFor(Replaced(b, e, Superseded(e, r)), S \ {e}, r)

\* safeFetch(url, params) up to its await of fetch(): the request is in flight
Send(s, r) ==
  [s EXCEPT !.pending = MarkedFor(s.pending, BagToSet(s.pending), r) (+) SetToBag({r})]

\* history: a load that ends without a request (nothing is selected above)
\* outdates the list requests in flight for the select
NoSend(s, kind) ==
  LET none == [NoRequest EXCEPT !.kind = kind, !.category = <<"(none)">>]
  IN  [s EXCEPT !.pending = MarkedFor(s.pending, BagToSet(s.pending), none)]

Receive(s, r) == [s EXCEPT !.pending = s.pending (-) SetToBag({r})]
-----------------------------------------------------------------------------
(* The component form: helpers                                             *)

\* clearSelect(el, placeholder): the select holds the placeholder option alone,
\* which is then the selected one
clearSelect(placeholder) == [options |-> <<Placeholder(placeholder)>>, value |-> Blank]

\* setHidden(ct, oid, label); the help text under the select is not modelled
setHidden(s, ct, oid) == [s EXCEPT !.hiddenCT = ct, !.hiddenOID = oid]

\* el.value = v on a select: the first option with that value becomes the
\* selected one; when there is none, no option is selected and el.value is ""
SetValue(el, v) ==
  [el EXCEPT !.value = IF \E i \in DOMAIN el.options : el.options[i].value = v
                       THEN v ELSE Blank]

\* el.options[el.selectedIndex], the placeholder's fields when nothing is selected
SelectedOption(el) ==
  IF \E i \in DOMAIN el.options : el.options[i].value = el.value
  THEN el.options[CHOOSE i \in DOMAIN el.options :
                    /\ el.options[i].value = el.value
                    /\ \A j \in 1..(i - 1) : el.options[j].value # el.value]
  ELSE Placeholder("")

OptionValues(el) == {el.options[i].value : i \in DOMAIN el.options}

\* a || b on texts
Or(a, b) == IF a # Blank THEN a ELSE b

\* the six cost fields, the type and the name are emptied (lines 588-590, 601-603)
ClearFields(s) ==
  [s EXCEPT !.costEl = Blank, !.widthEl = Blank, !.widthUomEl = Blank,
            !.finalPriceEl = Blank, !.pricePerSqftEl = Blank, !.finalCostEl = Blank,
            !.typeEl = Blank, !.nameField = Blank, !.serverSet = {}]

\* `${qualityName} ${typeName}`, or the one that is not empty
AutoName(qualityName, typeName) ==
  IF qualityName # Blank /\ typeName # Blank
  THEN qualityName \o <<" ">> \o typeName
  ELSE Or(typeName, qualityName)

\* the option built from a row of qualities_by_category (lines 387-409)
QualityOption(r) ==
  LET id    == IF r.id # Null THEN r.id ELSE Blank
      value == IF r.value # Null THEN r.value
               ELSE Or(id, IF r.label # Null THEN r.label ELSE Blank)
      label == IF r.label # Null THEN r.label ELSE Or(id, value)
  IN  Option(value, label, Blank, Blank, label)

\* the option built from a row of types_by_quality (lines 443-477)
TypeOption(r) ==
  LET id      == IF r.id # Null THEN r.id ELSE Blank
      value   == IF r.value # Null THEN r.value
                 ELSE Or(id, IF r.label # Null THEN r.label ELSE Blank)
      rawType == IF r.type # Null THEN r.type ELSE Blank
      hashId  == IF id # Blank THEN <<"#">> \o id ELSE value
      label   == IF r.label # Null THEN r.label ELSE Or(rawType, hashId)
  IN  Option(value,
             IF rawType # Blank THEN rawType ELSE IF label # Blank THEN label ELSE hashId,
             r.content_type_id,
             Or(rawType, label),
             label)

\* results.forEach of loadQualitiesByCategory and of loadTypesByQuality: one
\* option for each row, in the order of the answer
QualityOptions(rows) == [i \in DOMAIN rows |-> QualityOption(rows[i])]

TypeOptions(rows) == [i \in DOMAIN rows |-> TypeOption(rows[i])]

\* what a list request brings back: "fail" throws in safeFetch
Rows(outcome, rows) == IF outcome = "ok" THEN rows ELSE <<>>

-----------------------------------------------------------------------------
(* The component form: loading the colors                                  *)

\* COMPONENT_COLORS.load(), lines 330-348, up to the await in loadColors
\* (lines 142-159): without a component id nothing is requested and the empty
\* list is rendered
ColorsLoad(s) ==
  IF s.componentId = Blank
  THEN [s EXCEPT !.colorsEl = <<>>]
  ELSE Send(s, Request("colors", 1, "none", Blank, Blank, Blank, s.componentId, Blank,
                       Blank))

\* the rest of COMPONENT_COLORS.load(): loadColors returns the rows, or [] when
\* the request failed, and defaultRenderColors renders them
ColorsResume(s, outcome) == [s EXCEPT !.colorsEl = Rows(outcome, ColorResults)]

-----------------------------------------------------------------------------
(* The component form: the product/type level                              *)

\* fetchInventoryItem(ct, oid, quality) up to its await
FetchInventoryItem(s, script, cont, ct, oid, quality) ==
  Send(s, Request("item", script, cont, Blank, quality, ct, oid, s.logisticsEl, Blank))

\* the change listener of the product select of one script, up to its await
ProductChangeHandler(s, script) ==
  LET opt == SelectedOption(s.productEl)
      oid == s.productEl.value
      ct  == opt.ct
      s1  == setHidden(s, ct, oid)
  IN  IF ct # Blank /\ oid # Blank
      THEN FetchInventoryItem(s1, script, "none", ct, oid, s.qualityEl.value)
      ELSE s1

\* a change event on the product select: the listeners of both scripts run
ProductChangeEvent(s) == ProductChangeHandler(ProductChangeHandler(s, 1), 2)

\* a derived field is filled from the response, or else, when it is empty, from
\* the client metrics (lines 543-545 and 576-578)
FillDerived(current, server, client) ==
  IF server # Blank THEN server
  ELSE IF current = Blank THEN client ELSE current

\* computeClientMetrics(cost, width, width_uom, logisticsEl.value || "0") of
\* populateFromItemResponse (lines 569-574)
ClientMetricsOf(s, json) ==
  computeClientMetrics(Or(json.cost_per_unit, json.price), json.width,
                       Or(json.width_uom, <<"inch">>), Or(s.logisticsEl, <<"0">>))

\* the writes of populateFromItemResponse (lines 533-578), given the client metrics
PopulateWith(s, json, metrics) ==
  LET cost      == Or(json.cost_per_unit, json.price)
      width     == json.width
      width_uom == Or(json.width_uom, <<"inch">>)
      type      == IF json.type # Blank THEN json.type
                   ELSE IF json.label # Blank THEN json.label
                   ELSE IF s.hiddenOID # Blank THEN <<"Type #">> \o s.hiddenOID
                   ELSE Blank
      fromServer == {f \in {"final_price_per_unit", "price_per_sqfoot", "final_cost"} :
                       json[f] # Blank}
  IN  [s EXCEPT
        !.costEl = IF cost # Blank THEN cost ELSE @,
        !.widthEl = IF width # Blank THEN width ELSE @,
        !.widthUomEl = width_uom,
        !.finalPriceEl = FillDerived(@, json.final_price_per_unit,
                                     metrics.final_price_per_unit),
        !.pricePerSqftEl = FillDerived(@, json.price_per_sqfoot,
                                       metrics.price_per_sqfoot),
        !.finalCostEl = FillDerived(@, json.final_cost, metrics.final_cost),
        !.typeEl = type,
        !.nameField = AutoName(s.qualityEl.value, type),
        !.serverSet = @ \cup fromServer]

\* a slip: the derived fields are emptied and then made from the price that the
\* final price field shows, so that the logistics percent is applied again on
\* every answer
populateCompounding(s, json) ==
  IF ~json.ok THEN s
  ELSE PopulateWith([s EXCEPT !.finalPriceEl = Blank, !.pricePerSqftEl = Blank,
                              !.finalCostEl = Blank],
                    json,
                    computeClientMetrics(Or(s.finalPriceEl,
                                            Or(json.cost_per_unit, json.price)),
                                         json.width, Or(json.width_uom, <<"inch">>),
                                         Or(s.logisticsEl, <<"0">>)))

populateFromItemResponse(s, json) ==
  IF ~json.ok THEN s ELSE PopulateWith(s, json, ClientMetricsOf(s, json))

\* the product change listener after its await (lines 620-631): the fields are
\* populated, the name is made again, the first script loads the colors
ItemResume(s, r, json) ==
  LET s1 == populateFromItemResponse(s, json)
      s2 == [s1 EXCEPT !.nameField = AutoName(s1.qualityEl.value, s1.typeEl)]
  IN  IF r.script = 1 THEN ColorsLoad(s2) ELSE s2

\* loadTypesByQuality(category, quality) up to its await (lines 424-435)
LoadTypesStart(s, script, cont, category, quality) ==
  LET prevSelected == s.productEl.value
      s1 == setHidden([s EXCEPT !.productEl = clearSelect("-- Loading product types... --")],
                      Blank, Blank)
  IN  IF category = Blank \/ quality = Blank
      THEN NoSend([s1 EXCEPT !.productEl = clearSelect("-- Select quality first --")],
                  "types")
      ELSE Send(s1, Request("types", script, cont, category, quality, Blank, Blank,
                            Blank, prevSelected))

\* a slip: the catch block leaves the select as it is
TypesLoadFailedKept(s) == s

\* the catch block of loadTypesByQuality (lines 486-489)
TypesLoadFailed(s) == [s EXCEPT !.productEl = clearSelect("-- Error loading types --")]

\* the previous selection of the product select is put back and a change event
\* dispatched (lines 479-485)
RestoreProductSelection(s, loaded, prevSelected) ==
  IF prevSelected # Blank
  THEN ProductChangeEvent([s EXCEPT !.productEl = SetValue(loaded, prevSelected)])
  ELSE [s EXCEPT !.productEl = loaded]

\* loadTypesByQuality after its await (lines 436-489)
LoadTypesResume(s, r, outcome) ==
  LET results == Rows(outcome, TypeResults(r.category, r.quality))
      loaded  == [options |-> <<Placeholder("-- Select type --")>>
                                \o TypeOptions(results),
                  value |-> Blank]
  IN  IF outcome = "fail" THEN TypesLoadFailed(s)
      ELSE IF results = <<>>
      THEN [s EXCEPT !.productEl = clearSelect("-- No types found --")]
      ELSE RestoreProductSelection(s, loaded, r.prevSelected)

-----------------------------------------------------------------------------
(* The component form: the quality level                                   *)

\* the change listener of the quality select of one script (lines 595-604)
QualityChangeHandler(s, script) ==
  LET q        == s.qualityEl.value
      category == toUpperCase(s.categoryEl)
      s1       == LoadTypesStart(s, script, "none", category, q)
      s2       == [s1 EXCEPT !.productEl = clearSelect("-- Loading product types --")]
  IN  ClearFields(setHidden(s2, Blank, Blank))

\* a change event on the quality select: the listeners of both scripts run
QualityChangeEvent(s) == QualityChangeHandler(QualityChangeHandler(s, 1), 2)

\* loadQualitiesByCategory(category) up to its await (lines 366-379)
LoadQualitiesStart(s, script, cont, category) ==
  LET prevSelected == s.qualityEl.value
      s1 == setHidden([s EXCEPT
                        !.qualityEl = clearSelect("-- Loading qualities... --"),
                        !.productEl = clearSelect("-- Select type after quality --")],
                      Blank, Blank)
  IN  IF category = Blank
      THEN NoSend([s1 EXCEPT !.qualityEl = clearSelect("-- Select category first --")],
                  "qualities")
      ELSE Send(s1, Request("qualities", script, cont, category, Blank, Blank, Blank,
                            Blank, prevSelected))

\* a catch block that leaves the select as it is
QualitiesLoadFailedSilently(s) == s

\* the catch block of loadQualitiesByCategory (lines 418-421)
QualitiesLoadFailed(s) ==
  [s EXCEPT !.qualityEl = clearSelect("-- Error loading qualities --")]

\* a slip: the previous selection is put back, no change event is dispatched
RestoreQualitySilently(s, loaded, prevSelected) ==
  [s EXCEPT !.qualityEl = IF prevSelected # Blank THEN SetValue(loaded, prevSelected)
                          ELSE loaded]

\* the previous selection of the quality select is put back and a change event
\* dispatched (lines 411-417)
RestoreQualitySelection(s, loaded, prevSelected) ==
  IF prevSelected # Blank
  THEN QualityChangeEvent([s EXCEPT !.qualityEl = SetValue(loaded, prevSelected)])
  ELSE [s EXCEPT !.qualityEl = loaded]

\* loadQualitiesByCategory after its await (lines 380-421)
LoadQualitiesResume(s, r, outcome) ==
  LET results == Rows(outcome, QualityResults(r.category))
      loaded  == [options |-> <<Placeholder("-- Select quality --")>>
                                \o QualityOptions(results),
                  value |-> Blank]
  IN  IF outcome = "fail" THEN QualitiesLoadFailed(s)
      ELSE IF results = <<>>
      THEN [s EXCEPT !.qualityEl = clearSelect("-- No qualities found --")]
      ELSE RestoreQualitySelection(s, loaded, r.prevSelected)

-----------------------------------------------------------------------------
(* The component form: the category level and the logistics percent        *)

\* the change listener of the category select of one script (lines 583-591)
CategoryChangeHandler(s, script) ==
  LET category == toUpperCase(s.categoryEl)
      s1       == LoadQualitiesStart(s, script, "none", category)
      s2       == [s1 EXCEPT !.productEl = clearSelect("-- Select quality first --")]
  IN  ClearFields(setHidden(s2, Blank, Blank))

CategoryChangeEvent(s) == CategoryChangeHandler(CategoryChangeHandler(s, 1), 2)

\* a slip: the recomputation leaves the fields the server supplied
LogisticsInputKeepsServer(s) ==
  LET metrics == computeClientMetrics(s.costEl, s.widthEl, Or(s.widthUomEl, <<"inch">>),
                                      Or(s.logisticsEl, <<"0">>))
      Keep(f, current) == IF f \in s.serverSet THEN current ELSE metrics[f]
  IN  [s EXCEPT !.finalPriceEl = Keep("final_price_per_unit", @),
                !.pricePerSqftEl = Keep("price_per_sqfoot", @),
                !.finalCostEl = Keep("final_cost", @)]

\* the input listener of the logistics percent (lines 637-646)
LogisticsInputHandler(s) ==
  LET metrics == computeClientMetrics(s.costEl, s.widthEl, Or(s.widthUomEl, <<"inch">>),
                                      Or(s.logisticsEl, <<"0">>))
  IN  [s EXCEPT !.finalPriceEl = metrics.final_price_per_unit,
                !.pricePerSqftEl = metrics.price_per_sqfoot,
                !.finalCostEl = metrics.final_cost,
                !.serverSet = {}]

LogisticsInputEvent(s) == LogisticsInputHandler(LogisticsInputHandler(s))

-----------------------------------------------------------------------------
(* The component form: initialStateRestore (lines 650-682)                 *)

\* up to the first await.  The second script runs it after the first one has
\* emptied the quality and product selects, so its initialQuality is "" and
\* nothing follows its load of the qualities.
RestoreStart(s, script) ==
  IF s.categoryEl # Blank
  THEN LoadQualitiesStart(s, script, IF script = 1 THEN "restore" ELSE "none",
                          toUpperCase(s.categoryEl))
  ELSE IF script = 1 THEN ColorsLoad(s) ELSE s

\* after await loadQualitiesByCategory (lines 657-659, 674-675)
RestoreAfterQualities(s, r) ==
  IF s.initialQuality # Blank
  THEN LoadTypesStart([s EXCEPT !.qualityEl = SetValue(@, s.initialQuality)],
                      1, "restore", r.category, s.initialQuality)
  ELSE ColorsLoad(s)

\* after await loadTypesByQuality (lines 660-667, 674-675)
RestoreAfterTypes(s, r) ==
  IF s.initialProduct # Blank
  THEN LET s1 == [s EXCEPT !.productEl = SetValue(@, s.initialProduct)]
           ct == SelectedOption(s1.productEl).ct
       IN  IF ct # Blank
           THEN FetchInventoryItem(setHidden(s1, ct, s.initialProduct), 1, "restore",
                                   ct, s.initialProduct, s.initialQuality)
           ELSE ColorsLoad(s1)
  ELSE ColorsLoad(s)

\* after await fetchInventoryItem (lines 667, 674-675)
RestoreAfterItem(s, json) == ColorsLoad(populateFromItemResponse(s, json))
-----------------------------------------------------------------------------
(* The component form as a state machine                                   *)

State ==
  [categoryEl |-> categoryEl, qualityEl |-> qualityEl, productEl |-> productEl,
   logisticsEl |-> logisticsEl, costEl |-> costEl, widthEl |-> widthEl,
   widthUomEl |-> widthUomEl, finalPriceEl |-> finalPriceEl,
   pricePerSqftEl |-> pricePerSqftEl, finalCostEl |-> finalCostEl,
   hiddenCT |-> hiddenCT, hiddenOID |-> hiddenOID, typeEl |-> typeEl,
   nameField |-> nameField, colorsEl |-> colorsEl, componentId |-> componentId,
   initialQuality |-> initialQuality, initialProduct |-> initialProduct,
   pending |-> pending, events |-> events, serverSet |-> serverSet]

\* a user event, while the run has one left
UserEvent(s) == [s EXCEPT !.events = @ + 1]

\* the next state is s, provided no more than MaxInFlight requests are in flight
Becomes(s) ==
  /\ BagCardinality(s.pending) <= MaxInFlight
  /\ events' = s.events
  /\ categoryEl' = s.categoryEl
  /\ qualityEl' = s.qualityEl
  /\ productEl' = s.productEl
  /\ logisticsEl' = s.logisticsEl
  /\ costEl' = s.costEl
  /\ widthEl' = s.widthEl
  /\ widthUomEl' = s.widthUomEl
  /\ finalPriceEl' = s.finalPriceEl
  /\ pricePerSqftEl' = s.pricePerSqftEl
  /\ finalCostEl' = s.finalCostEl
  /\ hiddenCT' = s.hiddenCT
  /\ hiddenOID' = s.hiddenOID
  /\ typeEl' = s.typeEl
  /\ nameField' = s.nameField
  /\ colorsEl' = s.colorsEl
  /\ componentId' = s.componentId
  /\ initialQuality' = s.initialQuality
  /\ initialProduct' = s.initialProduct
  /\ pending' = s.pending
  /\ serverSet' = s.serverSet
  /\ UNCHANGED <<metricVars, costingVars, fetchVars, pageVars>>

\* history: the handler that ran; the value the user chose; of the request
\* handled: how it ended, whether it was stale, its content type and object id,
\* the body of an inventory_item answer; whether the load put the previous
\* selection back; the derived fields that held a server value before the
\* handler ran; whether the answer repeats the one handled just before
Ran(kind, value, r, outcome, json, restored) ==
  [kind |-> kind, value |-> value, outcome |-> outcome, stale |-> r.stale,
   ct |-> r.ct, oid |-> r.oid, json |-> json, restored |-> restored,
   server |-> serverSet,
   repeat |-> /\ kind = "item"
              /\ last.kind = "item"
              /\ json.ok
              /\ last.json = json
              /\ <<last.ct, last.oid>> = <<r.ct, r.oid>>]

NotRun == [kind |-> "init", value |-> Blank, outcome |-> "none", stale |-> FALSE,
           ct |-> Blank, oid |-> Blank, json |-> JsonNull, restored |-> FALSE,
           server |-> {}, repeat |-> FALSE]

Starts(s) ==
  /\ categoryEl = s.categoryEl
  /\ qualityEl = s.qualityEl
  /\ productEl = s.productEl
  /\ logisticsEl = s.logisticsEl
  /\ costEl = s.costEl
  /\ widthEl = s.widthEl
  /\ widthUomEl = s.widthUomEl
  /\ finalPriceEl = s.finalPriceEl
  /\ pricePerSqftEl = s.pricePerSqftEl
  /\ finalCostEl = s.finalCostEl
  /\ hiddenCT = s.hiddenCT
  /\ hiddenOID = s.hiddenOID
  /\ typeEl = s.typeEl
  /\ nameField = s.nameField
  /\ colorsEl = s.colorsEl
  /\ componentId = s.componentId
  /\ initialQuality = s.initialQuality
  /\ initialProduct = s.initialProduct
  /\ pending = s.pending
  /\ events = s.events
  /\ serverSet = s.serverSet
  /\ last = NotRun

\* computeClientMetrics alone: not called yet, and the form left alone
NoMetrics == [final_price_per_unit |-> <<"none">>, price_per_sqfoot |-> <<"none">>,
              final_cost |-> <<"none">>]

NoMetricInput == [price |-> Blank, width |-> Blank, uom |-> Blank, logistics |-> Blank]

\* initForm of the first script, then of the second one, on a rendered page
Init ==
  /\ \E page \in Pages : Starts(RestoreStart(RestoreStart(page, 1), 2))
  /\ mIn = NoMetricInput
  /\ mOut = NoMetrics
  /\ NoOtherPages
  /\ NoCostingForm
  /\ NoFetch

\* the user picks another category
CategoryChange ==
  \E v \in CategoryValues \ {categoryEl} :
    /\ events < MaxEvents
    /\ Becomes(CategoryChangeEvent(UserEvent([State EXCEPT !.categoryEl = v])))
    /\ last' = Ran("category", v, NoRequest, "none", JsonNull, FALSE)

\* the user picks another option of the quality select
QualityChange ==
  \E v \in OptionValues(qualityEl) \ {qualityEl.value} :
    /\ events < MaxEvents
    /\ Becomes(QualityChangeEvent(UserEvent([State EXCEPT !.qualityEl = SetValue(@, v)])))
    /\ last' = Ran("quality", v, NoRequest, "none", JsonNull, FALSE)

\* the user picks another option of the product/type select
ProductChange ==
  \E v \in OptionValues(productEl) \ {productEl.value} :
    /\ events < MaxEvents
    /\ Becomes(ProductChangeEvent(UserEvent([State EXCEPT !.productEl = SetValue(@, v)])))
    /\ last' = Ran("product", v, NoRequest, "none", JsonNull, FALSE)

\* the user types a logistics percent
LogisticsInput ==
  \E v \in LogisticsInputs \ {logisticsEl} :
    /\ events < MaxEvents
    /\ Becomes(LogisticsInputEvent(UserEvent([State EXCEPT !.logisticsEl = v])))
    /\ last' = Ran("logistics", v, NoRequest, "none", JsonNull, FALSE)

\* the user types a cost or a width: no script listens to these inputs
CostInput ==
  \E v \in CostInputs \ {costEl} :
    /\ events < MaxEvents
    /\ Becomes(UserEvent([State EXCEPT !.costEl = v]))
    /\ last' = Ran("cost", v, NoRequest, "none", JsonNull, FALSE)

WidthInput ==
  \E v \in WidthInputs \ {widthEl} :
    /\ events < MaxEvents
    /\ Becomes(UserEvent([State EXCEPT !.widthEl = v]))
    /\ last' = Ran("width", v, NoRequest, "none", JsonNull, FALSE)

\* history: the load of r found the options loaded, and among them the value
\* that was selected when the load began
Restores(r, outcome, loaded) ==
  /\ outcome = "ok"
  /\ r.prevSelected # Blank
  /\ \E i \in DOMAIN loaded : loaded[i].value = r.prevSelected

\* a qualities_by_category request ends
QualitiesResponse ==
  \E r \in BagToSet(pending), outcome \in ListOutcomes :
    /\ r.kind = "qualities"
    /\ LET s1 == LoadQualitiesResume(Receive(State, r), r, outcome)
       IN  Becomes(IF r.cont = "restore" THEN RestoreAfterQualities(s1, r) ELSE s1)
    /\ last' = Ran("qualities", Blank, r, outcome, JsonNull,
                    Restores(r, outcome, QualityOptions(QualityResults(r.category))))

\* a types_by_quality request ends
TypesResponse ==
  \E r \in BagToSet(pending), outcome \in ListOutcomes :
    /\ r.kind = "types"
    /\ LET s1 == LoadTypesResume(Receive(State, r), r, outcome)
       IN  Becomes(IF r.cont = "restore" THEN RestoreAfterTypes(s1, r) ELSE s1)
    /\ last' = Ran("types", Blank, r, outcome, JsonNull,
                    Restores(r, outcome,
                             TypeOptions(TypeResults(r.category, r.quality))))

\* an inventory_item request ends
ItemResponse ==
  \E r \in BagToSet(pending), json \in ItemResponses :
    /\ r.kind = "item"
    /\ Becomes(IF r.cont = "restore" THEN RestoreAfterItem(Receive(State, r), json)
               ELSE ItemResume(Receive(State, r), r, json))
    /\ last' = Ran("item", Blank, r, IF json.ok THEN "ok" ELSE "fail", json, FALSE)

\* a colors_list request ends
ColorsResponse ==
  \E r \in BagToSet(pending), outcome \in {"ok", "fail"} :
    /\ r.kind = "colors"
    /\ Becomes(ColorsResume(Receive(State, r), outcome))
    /\ last' = Ran("colors", Blank, r, outcome, JsonNull, FALSE)

FormNext ==
  \/ CategoryChange
  \/ QualityChange
  \/ ProductChange
  \/ LogisticsInput
  \/ CostInput
  \/ WidthInput
  \/ QualitiesResponse
  \/ TypesResponse
  \/ ItemResponse
  \/ ColorsResponse

Next == FormNext

Spec == Init /\ [][Next]_vars

-----------------------------------------------------------------------------
(* The component form on a page whose configuration names no               *)
(* urls.qualities_by_category: safeFetch throws "URL not configured"       *)
(* (line 88) before it sends anything, inside the try block of             *)
(* loadQualitiesByCategory.  The other endpoints are configured.           *)

\* loadQualitiesByCategory up to the await of line 380
LoadQualitiesNoUrl(s, category) ==
  IF category = Blank THEN LoadQualitiesStart(s, 1, "none", Blank)
  ELSE setHidden([s EXCEPT
                    !.qualityEl = clearSelect("-- Loading qualities... --"),
                    !.productEl = clearSelect("-- Select type after quality --")],
                 Blank, Blank)

\* the change listener of the category select of one script (lines 583-591);
\* the catch block of loadQualitiesByCategory runs when the listener has
\* returned
CategoryChangeNoUrl(s, script) ==
  LET category == toUpperCase(s.categoryEl)
      s1       == LoadQualitiesNoUrl(s, category)
      s2       == [s1 EXCEPT !.productEl = clearSelect("-- Select quality first --")]
      s3       == ClearFields(setHidden(s2, Blank, Blank))
  IN  IF category = Blank THEN s3 ELSE QualitiesLoadFailed(s3)

CategoryChangeNoUrlEvent(s) == CategoryChangeNoUrl(CategoryChangeNoUrl(s, 1), 2)

\* initialStateRestore of one script (lines 650-682): loadQualitiesByCategory
\* catches the error and returns, and the restore goes on
RestoreNoUrl(s, script) ==
  IF s.categoryEl # Blank
  THEN LET category == toUpperCase(s.categoryEl)
           s1       == QualitiesLoadFailed(LoadQualitiesNoUrl(s, category))
       IN  IF script = 1
           THEN RestoreAfterQualities(s1, [NoRequest EXCEPT !.category = category])
           ELSE s1
  ELSE IF script = 1 THEN ColorsLoad(s) ELSE s

NoUrlInit ==
  /\ \E page \in Pages : Starts(RestoreNoUrl(RestoreNoUrl(page, 1), 2))
  /\ mIn = NoMetricInput
  /\ mOut = NoMetrics
  /\ NoOtherPages
  /\ NoCostingForm
  /\ NoFetch

\* the user picks another category
CategoryChangeWithoutUrl ==
  \E v \in CategoryValues \ {categoryEl} :
    /\ events < MaxEvents
    /\ Becomes(CategoryChangeNoUrlEvent(UserEvent([State EXCEPT !.categoryEl = v])))
    /\ last' = Ran("category", v, NoRequest, "none", JsonNull, FALSE)

\* the quality select never gets an option, so no quality can be picked
NoUrlNext ==
  \/ CategoryChangeWithoutUrl
  \/ ProductChange
  \/ LogisticsInput
  \/ CostInput
  \/ WidthInput
  \/ TypesResponse
  \/ ItemResponse
  \/ ColorsResponse

NoUrlSpec == NoUrlInit /\ [][NoUrlNext]_vars

-----------------------------------------------------------------------------
(* Specification of computeClientMetrics alone: the arguments are drawn    *)
(* from bounded sets, the call returns.                                    *)

PriceTexts == {<<>>, <<"0">>, <<"1", "0">>, <<"1", "2", ".", "5">>, <<"-", "5">>,
               <<"9", "9", ".", "9", "9">>, <<"a", "b">>, <<"$", "1", ",", "0", "0", "0">>}
WidthTexts == {<<>>, <<"0">>, <<"5", "4">>, <<"2", ".", "5">>, <<"-", "3">>, <<"1", "-", "2">>}
UomTexts   == {<<>>, <<"inch">>, <<"cm">>, <<"CM">>, <<"centimeter">>}
LogisticsTexts == {<<>>, <<"0">>, <<"1", "0">>, <<"2", ".", "5">>, <<"-", "2", "0", "0">>,
                   <<"5", "0">>}

MetricInputs == [price : PriceTexts, width : WidthTexts, uom : UomTexts,
                 logistics : LogisticsTexts]

MetricsInit ==
  /\ mIn \in MetricInputs
  /\ mOut = NoMetrics
  /\ NoOtherPages
  /\ Starts(CreatePage)
  /\ NoCostingForm
  /\ NoFetch

MetricsCall ==
  /\ mOut = NoMetrics
  /\ mOut' = computeClientMetrics(mIn.price, mIn.width, mIn.uom, mIn.logistics)
  /\ UNCHANGED <<mIn, formVars, costingVars, fetchVars, pageVars>>

MetricsNext == MetricsCall

MetricsSpec == MetricsInit /\ [][MetricsNext]_vars

-----------------------------------------------------------------------------
(* Part 2: the costing form, unnamed/part_004 (costing.js).                *)
(*                                                                         *)
(* The page has the component (quality) select, the #component-colors      *)
(* container of checkboxes, the SKU preview list and the SKU field, and no *)
(* single-choice color select.  The page configuration names no master     *)
(* components, so tryFillComponentFromMasterById returns false (325-359);  *)
(* every endpoint has a default URL (lines 24-47).                         *)
(***************************************************************************)

MaxCostingEvents == 2
MaxBatches == 2
MaxCostingInFlight == 3

ComponentA == <<"A">>
ComponentB == <<"B">>
ComponentValues == {Blank, ComponentA, ComponentB}

NameInputs == {<<"Shirt">>, <<"Coat">>}

Color(id, name) == [id |-> id, name |-> name]

\* what the colors endpoint and the component details know of a component
ServerColors(comp) ==
  IF comp = ComponentA
  THEN <<Color(<<"c1">>, <<"Red">>), Color(<<"c2">>, <<"Blue">>)>>
  ELSE IF comp = ComponentB THEN <<Color(<<"c3">>, Blank)>>
  ELSE <<>>

\* what a colors request can bring: a list, an empty list, or no payload
ColorsOutcomes == {"ok", "empty", "fail"}
\* what a details request can bring: a component with its colors, a component
\* without colors, or no payload
DetailsOutcomes == {"colors", "plain", "fail"}
SkuOutcomes == {"ok", "fail"}

\* the compute_sku endpoint builds the SKU of the parameters it is sent
ComputedSku(name, colorId) == <<"SKU">> \o name \o colorId

Box(c, checked) == [id |-> c.id, name |-> c.name, checked |-> checked]

Shows(kind, content) == [kind |-> kind, content |-> content]

NoColorsText == Shows("text", <<"No active colors for this quality.">>)
LoadingColorsText == Shows("text", <<"Loading colors">>)
NoColorsSelected == Shows("text", <<"No colors selected">>)
GeneratingPreviews == Shows("text", <<"Generating previews">>)

PendingResult == <<"(pending)">>

CRequest(kind, comp, event, cause, batch, idx) ==
  [kind |-> kind, comp |-> comp, event |-> event, cause |-> cause,
   batch |-> batch, idx |-> idx]

\* history: the requests the latest triggering event has caused, per endpoint
NothingAsked(event) == [event |-> event, details |-> 0, colors |-> 0]

Asked(s, event, kind) ==
  IF s.asked.event = event THEN [s EXCEPT !.asked[kind] = @ + 1] ELSE s

\* ajaxGet (lines 54-59)
ajaxGet(s, r) == [Asked(s, r.event, r.kind) EXCEPT !.cPending = @ \cup {r}]

\* a renderNoColors that leaves the SKU field alone
renderNoColorsKeepingSku(s) ==
  [s EXCEPT !.colorsContainer = NoColorsText,
            !.skuPreviewList = NoColorsSelected]

\* renderNoColors (lines 639-653)
renderNoColors(s) ==
  [s EXCEPT !.colorsContainer = NoColorsText,
            !.skuPreviewList = NoColorsSelected,
            !.skuInput = Blank]

\* the normalisation of populateColorWidgetsFromArray (lines 660-673)
RECURSIVE Normalized(_)
Normalized(arr) ==
  IF arr = <<>> THEN <<>>
  ELSE <<Color(Head(arr).id, Or(Head(arr).name, Head(arr).id))>> \o Normalized(Tail(arr))

RECURSIVE Unchecked(_)
Unchecked(colors) ==
  IF colors = <<>> THEN <<>>
  ELSE <<Box(Head(colors), FALSE)>> \o Unchecked(Tail(colors))

\* populateColorWidgetsFromArray (lines 658-736)
populateColorWidgetsFromArray(s, arr) ==
  IF Normalized(arr) = <<>> THEN renderNoColors(s)
  ELSE [s EXCEPT !.colorsContainer = Shows("boxes", Unchecked(Normalized(arr))),
                 !.skuPreviewList = NoColorsSelected]

\* fetchColorsForComponent (lines 739-774), up to its request
fetchColorsForComponent(s, comp, event, cause) ==
  IF comp = Blank THEN renderNoColors(s)
  ELSE ajaxGet([s EXCEPT !.colorsContainer = LoadingColorsText],
               CRequest("colors", comp, event, cause, 0, 0))

\* the callback of fetchColorsForComponent (lines 766-773)
ColorsCallback(s, r, outcome) ==
  IF outcome = "ok" THEN populateColorWidgetsFromArray(s, ServerColors(r.comp))
  ELSE renderNoColors(s)

\* onComponentChange (lines 361-418), up to its requests
onComponentChange(s, event) ==
  IF s.componentSelect = Blank
    THEN populateColorWidgetsFromArray([s EXCEPT !.componentFields = Blank], <<>>)
  ELSE fetchColorsForComponent(
         ajaxGet(s, CRequest("details", s.componentSelect, event, "change", 0, 0)),
         s.componentSelect, event, "change")

\* the callback of onComponentChange's details request (lines 380-411)
DetailsCallback(s, r, outcome) ==
  LET f == [s EXCEPT !.componentFields = r.comp]
  IN IF outcome = "fail" THEN s
     ELSE IF outcome = "colors"
       THEN populateColorWidgetsFromArray(f, ServerColors(r.comp))
     ELSE fetchColorsForComponent(f, r.comp, r.event, "details")

\* a debounce that leaves the armed timer to fire as well
debounceWithoutClear(s) ==
  [s EXCEPT !.skuPreviewTimer = IF @ < 2 THEN @ + 1 ELSE @,
            !.armed = IF @ < 2 THEN @ + 1 ELSE @]

\* debounceSkuPreview (lines 777-784): the armed timer is cleared and a new
\* one is set
debounceSkuPreview(s) ==
  [s EXCEPT !.skuPreviewTimer = 1,
            !.armed = IF @ < 2 THEN @ + 1 ELSE @]

\* the checked boxes of the container, in document order (line 847)
RECURSIVE CheckedOf(_)
CheckedOf(boxes) ==
  IF boxes = <<>> THEN <<>>
  ELSE (IF Head(boxes).checked THEN <<Color(Head(boxes).id, Head(boxes).name)>> ELSE <<>>)
         \o CheckedOf(Tail(boxes))

Checked(s) ==
  IF s.colorsContainer.kind = "boxes" THEN CheckedOf(s.colorsContainer.content) ELSE <<>>

Batch(colors, name) ==
  [colors |-> colors, name |-> name,
   results |-> [i \in 1..Len(colors) |-> PendingResult]]

\* the requests of a batch: fetchSkuForColor of every checked box (811-828, 856-858)
SkuRequests(b, n) == {CRequest("sku", Blank, 0, "preview", b, i) : i \in 1..n}

\* updateSkuPreviews (lines 831-880), up to its requests
updateSkuPreviews(s) ==
  IF Checked(s) = <<>>
  THEN [s EXCEPT !.skuPreviewList = NoColorsSelected, !.skuInput = Blank]
  ELSE [s EXCEPT !.skuPreviewList = GeneratingPreviews,
                 !.batches = Append(@, Batch(Checked(s), s.nameEl)),
                 !.cPending = @ \cup SkuRequests(Len(s.batches) + 1, Len(Checked(s)))]

\* the text of one entry of the preview list (lines 863-864)
EntryText(c, sku) == Or(c.name, c.id) \o <<": ">> \o Or(sku, <<"(preview unavailable)">>)

PreviewEntries(b) == [i \in 1..Len(b.colors) |-> EntryText(b.colors[i], b.results[i])]

Complete(b) == \A i \in 1..Len(b.results) : b.results[i] # PendingResult

\* what the continuation of a batch writes into the SKU field (lines 871-875)
SkuFieldOf(b) == IF Len(b.results) = 1 THEN b.results[1] ELSE Blank

\* the continuation of Promise.all (lines 860-875)
WritePreviews(s, b) ==
  [s EXCEPT !.skuPreviewList = Shows("list", PreviewEntries(b)),
            !.skuInput = SkuFieldOf(b)]

\* a callback that writes the list at every response, with the entries of the
\* colors resolved so far
SkuResolvedEach(s, r, outcome) ==
  LET sku == IF outcome = "ok"
             THEN ComputedSku(s.batches[r.batch].name, s.batches[r.batch].colors[r.idx].id)
             ELSE Blank
      b == [s.batches[r.batch] EXCEPT !.results[r.idx] = sku]
      resolved == [i \in 1..Len(b.colors) |->
                     IF b.results[i] = PendingResult THEN <<>>
                     ELSE EntryText(b.colors[i], b.results[i])]
  IN [s EXCEPT !.batches[r.batch] = b,
               !.skuPreviewList = Shows("list", resolved),
               !.skuInput = SkuFieldOf(b)]

\* the callback of fetchSkuForColor (lines 823-826) and, once every promise of
\* the batch is resolved, the continuation of Promise.all
SkuResolved(s, r, outcome) ==
  LET sku == IF outcome = "ok"
             THEN ComputedSku(s.batches[r.batch].name, s.batches[r.batch].colors[r.idx].id)
             ELSE Blank
      b == [s.batches[r.batch] EXCEPT !.results[r.idx] = sku]
      t == [s EXCEPT !.batches[r.batch] = b]
  IN IF Complete(b) THEN WritePreviews(t, b) ELSE t

\* the user ticks or unticks a box: the box changes, onColorCheckboxChange runs
\* (lines 884-886)
ToggleBox(s, i) ==
  debounceSkuPreview([s EXCEPT !.colorsContainer.content[i].checked = ~@])

\* ---- the pages the server renders
CostingPage(comp, container, sku, timers) ==
  [componentSelect |-> comp, componentFields |-> comp, nameEl |-> <<"Shirt">>, colorsContainer |-> container,
   skuPreviewList |-> Shows("text", Blank), skuInput |-> sku, skuPreviewTimer |-> 0,
   initTimers |-> timers, cPending |-> {}, batches |-> <<>>, cEvents |-> 0,
   asked |-> NothingAsked(0),
   armed |-> 0]

\* a new sheet: nothing selected; only the preview timer of init is armed
NewSheet == CostingPage(Blank, Shows("text", Blank), Blank, <<"preview">>)

\* a sheet rendered again after a rejected submission: the component, the
\* category and one color are selected; init arms its timers (918, 969-984)
RerenderedSheet ==
  CostingPage(ComponentA,
              Shows("boxes", <<Box(Color(<<"c1">>, <<"Red">>), TRUE),
                               Box(Color(<<"c2">>, <<"Blue">>), FALSE)>>),
              ComputedSku(<<"Shirt">>, <<"c1">>),
              <<"colors", "category", "change", "preview">>)

CostingPages == {NewSheet, RerenderedSheet}

\* the triggering events: the timer of line 918, the change that init
\* dispatches, and the user's events
TimerEvent == 0
RestoreEvent == 1
UserEventId(s) == s.cEvents + 1

Triggered(s, event) == [s EXCEPT !.asked = NothingAsked(event)]

CState ==
  [componentSelect |-> componentSelect, nameEl |-> nameEl,
   colorsContainer |-> colorsContainer, skuPreviewList |-> skuPreviewList,
   skuInput |-> skuInput, skuPreviewTimer |-> skuPreviewTimer,
   initTimers |-> initTimers, cPending |-> cPending, batches |-> batches,
   cEvents |-> cEvents, asked |-> asked, armed |-> armed,
   componentFields |-> componentFields]

CUserEvent(s) == [s EXCEPT !.cEvents = @ + 1]

CRan(kind, outcome, comp, batch, idx) ==
  [kind |-> kind, outcome |-> outcome, comp |-> comp, batch |-> batch, idx |-> idx]

CNotRun == CRan("none", "none", Blank, 0, 0)

CBecomes(s) ==
  /\ componentSelect' = s.componentSelect
  /\ nameEl' = s.nameEl
  /\ colorsContainer' = s.colorsContainer
  /\ skuPreviewList' = s.skuPreviewList
  /\ skuInput' = s.skuInput
  /\ skuPreviewTimer' = s.skuPreviewTimer
  /\ initTimers' = s.initTimers
  /\ cPending' = s.cPending
  /\ batches' = s.batches
  /\ cEvents' = s.cEvents
  /\ asked' = s.asked
  /\ armed' = s.armed
  /\ componentFields' = s.componentFields
  /\ UNCHANGED <<formVars, metricVars, fetchVars, pageVars>>

CStarts(s) ==
  /\ componentSelect = s.componentSelect
  /\ nameEl = s.nameEl
  /\ colorsContainer = s.colorsContainer
  /\ skuPreviewList = s.skuPreviewList
  /\ skuInput = s.skuInput
  /\ skuPreviewTimer = s.skuPreviewTimer
  /\ initTimers = s.initTimers
  /\ cPending = s.cPending
  /\ batches = s.batches
  /\ cEvents = s.cEvents
  /\ asked = s.asked
  /\ armed = s.armed
  /\ componentFields = s.componentFields
  /\ clast = CNotRun

\* the script has run to its end on a rendered page (lines 900-990)
CostingInit ==
  /\ \E page \in CostingPages : CStarts(page)
  /\ Starts(CreatePage)
  /\ mIn = NoMetricInput
  /\ mOut = NoMetrics
  /\ NoOtherPages
  /\ NoFetch

\* the user picks another component (quality)
ComponentChange ==
  \E v \in ComponentValues \ {componentSelect} :
    /\ cEvents < MaxCostingEvents
    /\ Cardinality(cPending) + 2 <= MaxCostingInFlight
    /\ LET s == CUserEvent([CState EXCEPT !.componentSelect = v])
       IN CBecomes(onComponentChange(Triggered(s, UserEventId(s)), UserEventId(s)))
    /\ clast' = CRan("component", "none", v, 0, 0)

\* the user ticks or unticks a color
ColorToggle ==
  /\ colorsContainer.kind = "boxes"
  /\ cEvents < MaxCostingEvents
  /\ \E i \in 1..Len(colorsContainer.content) :
       /\ CBecomes(ToggleBox(CUserEvent(CState), i))
       /\ clast' = CRan("toggle", "none", Blank, 0, i)

\* the user types another name: one of wirePreviewDependencies' fields (889-897)
NameInput ==
  \E v \in NameInputs \ {nameEl} :
    /\ cEvents < MaxCostingEvents
    /\ CBecomes(debounceSkuPreview(CUserEvent([CState EXCEPT !.nameEl = v])))
    /\ clast' = CRan("name", "none", Blank, 0, 0)

InitTimer(kind) == initTimers # <<>> /\ Head(initTimers) = kind

Fired(s) == [s EXCEPT !.initTimers = Tail(@)]

\* the timer of line 918 fires
ColorsTimer ==
  /\ InitTimer("colors")
  /\ CBecomes(fetchColorsForComponent(Triggered(Fired(CState), TimerEvent),
                                      componentSelect, TimerEvent, "timer"))
  /\ clast' = CRan("colorsTimer", "none", componentSelect, 0, 0)

\* init's timer of line 970 fires: the category select gets a change event,
\* which the debounced preview listens to (line 895)
CategoryTimer ==
  /\ InitTimer("category")
  /\ CBecomes(debounceSkuPreview(Fired(CState)))
  /\ clast' = CRan("categoryTimer", "none", Blank, 0, 0)

\* init's timer of line 969 fires: the component select gets a change event
ChangeTimer ==
  /\ InitTimer("change")
  /\ CBecomes(onComponentChange(Triggered(Fired(CState), RestoreEvent), RestoreEvent))
  /\ clast' = CRan("changeTimer", "none", componentSelect, 0, 0)

\* init's timer of line 984 fires
PreviewTimer ==
  /\ InitTimer("preview")
  /\ CBecomes(debounceSkuPreview(Fired(CState)))
  /\ clast' = CRan("previewTimer", "none", Blank, 0, 0)

\* a timer of the debounced preview fires: updateSkuPreviews runs.  It was
\* armed for 220 ms after the load, so the timers that lines 918, 969 and 970
\* armed for 120 and 150 ms at the load have fired
PreviewFires ==
  /\ skuPreviewTimer > 0
  /\ initTimers \in {<<>>, <<"preview">>}
  /\ Checked(CState) # <<>>
       => /\ Len(batches) < MaxBatches
          /\ Cardinality(cPending) + Len(Checked(CState)) <= MaxCostingInFlight
  /\ CBecomes(updateSkuPreviews([CState EXCEPT !.skuPreviewTimer = @ - 1, !.armed = 0]))
  /\ clast' = CRan("fire", IF Checked(CState) = <<>> THEN "none" ELSE "batch", Blank,
                   IF Checked(CState) = <<>> THEN 0 ELSE Len(batches) + 1, armed)

Received(s, r) == [s EXCEPT !.cPending = @ \ {r}]

\* the answer to a component details request arrives
DetailsResponse ==
  \E r \in cPending : \E outcome \in DetailsOutcomes :
    /\ r.kind = "details"
    /\ CBecomes(DetailsCallback(Received(CState, r), r, outcome))
    /\ clast' = CRan("details", outcome, r.comp, 0, 0)

\* the answer to a colors request arrives
CostingColorsResponse ==
  \E r \in cPending : \E outcome \in ColorsOutcomes :
    /\ r.kind = "colors"
    /\ CBecomes(ColorsCallback(Received(CState, r), r, outcome))
    /\ clast' = CRan("colors", outcome, r.comp, 0, 0)

\* the answer to a compute_sku request arrives
SkuResponse ==
  \E r \in cPending : \E outcome \in SkuOutcomes :
    /\ r.kind = "sku"
    /\ CBecomes(SkuResolved(Received(CState, r), r, outcome))
    /\ clast' = CRan("sku", outcome, Blank, r.batch, r.idx)

CostingNext ==
  \/ ComponentChange
  \/ ColorToggle
  \/ NameInput
  \/ ColorsTimer
  \/ CategoryTimer
  \/ ChangeTimer
  \/ PreviewTimer
  \/ PreviewFires
  \/ DetailsResponse
  \/ CostingColorsResponse
  \/ SkuResponse

CostingSpec == CostingInit /\ [][CostingNext]_vars

-----------------------------------------------------------------------------
(* Part 3: the requests that change data.                                  *)
(*                                                                         *)
(* safeFetch and the color handlers of the component form                  *)
(* (static/components/js/component_form.js 57-58, 87-139, 160-186,         *)
(* 265-306), ajaxPostJSON of the costing form (unnamed/part_004 61-94, the *)
(* same in part_003), the stage actions (unnamed/part_000), the attendance *)
(* button and the ajax forms (unnamed/part_001, the same in part_002) and  *)
(* the notifications (staticfiles/workorders/js/notifications.js).         *)
(*                                                                         *)
(* A response body is a sequence of JSON tokens: "{", "}", ":", the quote  *)
(* and words.                                                              *)
(***************************************************************************)

Quote == "'"

Str(word) == <<Quote, word, Quote>>

Cookie(name, value) == [name |-> name, value |-> value]

Cookies ==
  { <<>>,
    <<Cookie("sessionid", <<"s1">>)>>,
    <<Cookie("csrftoken", <<"tokC">>)>>,
    <<Cookie("sessionid", <<"s1">>), Cookie("csrftoken", <<"tokC">>)>> }

ConfigTokens == {Blank, <<"tokP">>}
InputTokens == {Null, <<"tokF">>}

Statuses == {200, 201, 400, 403, 500}

Bodies ==
  { Blank,
    <<"{", "}">>,
    <<"{">> \o Str("error") \o <<":">> \o Str("Name exists") \o <<"}">>,
    <<"{">> \o Str("ok") \o <<":", "true", "}">>,
    <<"{">> \o Str("error") \o <<":">>,
    <<"<html>", "Forbidden", "</html>">> }

\* getCookie (part_000 22-27; part_001 5-14; part_004 61-69; notifications.js
\* 17-22): the value of the first cookie of that name, or null
RECURSIVE getCookie(_, _)
getCookie(cookies, name) ==
  IF cookies = <<>> THEN Null
  ELSE IF Head(cookies).name = name THEN Head(cookies).value
  ELSE getCookie(Tail(cookies), name)

\* CSRF_TOKEN of the component form (lines 57-58)
CSRF_TOKEN == Or(cfgCsrfToken, Or(IF csrfInput = Null THEN Blank ELSE csrfInput, Blank))

NoHeader == <<"(no header)">>

\* a header value is turned into text: null becomes "null"
HeaderText(v) == IF v = Null THEN <<"null">> ELSE v

SentBy(script, via, method, csrf) ==
  [script |-> script, via |-> via, method |-> method, csrf |-> csrf]

NotSent == SentBy("none", "none", "none", Blank)

\* a safeFetch that attaches the token to no POST
CsrfHeaderButPost(method) ==
  IF method \in {"PUT", "PATCH", "DELETE"} THEN HeaderText(CSRF_TOKEN) ELSE NoHeader

\* safeFetch, lines 98-101: the token goes with the unsafe methods
CsrfHeader(method) ==
  IF method \in {"POST", "PUT", "PATCH", "DELETE"} THEN HeaderText(CSRF_TOKEN) ELSE NoHeader

\* ---- JSON.parse of a body: an object of no or one member, whose value is a
\* string or a literal
NotParsed == [ok |-> FALSE, value |-> Blank, next |-> 0]

Parsed(value, next) == [ok |-> TRUE, value |-> value, next |-> next]

ParseString(t, i) ==
  IF /\ i + 2 <= Len(t)
     /\ t[i] = Quote
     /\ t[i + 1] \notin {Quote, "{", "}", ":"}
     /\ t[i + 2] = Quote
  THEN Parsed(<<t[i + 1]>>, i + 3)
  ELSE NotParsed

ParseValue(t, i) ==
  IF i <= Len(t) /\ t[i] \in {"true", "false", "null"}
  THEN Parsed(<<t[i]>>, i + 1)
  ELSE ParseString(t, i)

Member(key, value) == [key |-> key, value |-> value]

JSONparse(t) ==
  IF t = <<"{", "}">> THEN Parsed({}, 3)
  ELSE IF Len(t) >= 2 /\ t[1] = "{"
  THEN LET k == ParseString(t, 2)
       IN IF k.ok /\ k.next <= Len(t) /\ t[k.next] = ":"
          THEN LET v == ParseValue(t, k.next + 1)
               IN IF v.ok /\ v.next = Len(t) /\ t[v.next] = "}"
                  THEN Parsed({Member(k.value, v.value)}, v.next + 1)
                  ELSE NotParsed
          ELSE NotParsed
  ELSE NotParsed

JsonBody(object) == [type |-> "json", object |-> object, text |-> Blank]
TextBody(text) == [type |-> "text", object |-> {}, text |-> text]
RawBody(text) == [type |-> "raw", object |-> {}, text |-> text]
NoBody == [type |-> "none", object |-> {}, text |-> Blank]

Returned(body) == [kind |-> "return", status |-> 0, body |-> body]
Thrown(status, body) == [kind |-> "throw", status |-> status, body |-> body]
NotEnded == [kind |-> "none", status |-> 0, body |-> NoBody]

IsOk(status) == status >= 200 /\ status <= 299

\* safeFetch from the response on (lines 117-138).  The error of lines 122-126
\* is thrown inside the try block, so the catch of line 129 receives it as it
\* receives an error of JSON.parse
safeFetch(status, text) ==
  LET json == IF text = Blank THEN Parsed({}, 1) ELSE JSONparse(text)
      thrownInTry == ~json.ok \/ ~IsOk(status)
  IN IF ~thrownInTry THEN Returned(JsonBody(json.value))
     ELSE IF ~IsOk(status) THEN Thrown(status, TextBody(text))
     ELSE Returned(RawBody(text))

\* e.body.error of the color handlers (lines 283, 302): the member of an
\* object; a string has no such property
BodyError(body) ==
  IF body.type = "json" /\ \E m \in body.object : m.key = <<"error">>
  THEN (CHOOSE m \in body.object : m.key = <<"error">>).value
  ELSE Blank

\* the alert of the color handlers (lines 281-285, 300-304)
AlertOf(c, out) ==
  IF out.kind # "throw" THEN Blank
  ELSE IF c = "createColor" THEN Or(BodyError(out.body), <<"Failed to create color">>)
  ELSE IF c = "deleteColor" THEN Or(BodyError(out.body), <<"Failed to delete color">>)
  ELSE Blank

NoResponse == [status |-> 0, text |-> Blank]

Idle == call = "none" /\ sent = NotSent

Sends(request, c) ==
  /\ sent' = request
  /\ call' = c
  /\ UNCHANGED <<documentCookie, cfgCsrfToken, csrfInput, response, fOut, alerted,
                 formVars, metricVars, costingVars,
                 pageVars>>

\* a page is loaded: its cookies, its configuration and its hidden input
FetchInit ==
  /\ documentCookie \in Cookies
  /\ cfgCsrfToken \in ConfigTokens
  /\ csrfInput \in InputTokens
  /\ sent = NotSent
  /\ call = "none"
  /\ response = NoResponse
  /\ fOut = NotEnded
  /\ alerted = Blank
  /\ Starts(CreatePage)
  /\ mIn = NoMetricInput
  /\ mOut = NoMetrics
  /\ NoOtherPages
  /\ NoCostingForm

\* createColor (lines 160-173)
ColorCreate ==
  /\ Idle
  /\ Sends(SentBy("component_form", "fetch", "POST", CsrfHeader("POST")), "createColor")

\* deleteColor (lines 175-186)
ColorDelete ==
  /\ Idle
  /\ Sends(SentBy("component_form", "fetch", "POST", CsrfHeader("POST")), "deleteColor")

\* loadColors (lines 141-158): a GET through the same safeFetch
ColorsLookup ==
  /\ Idle
  /\ Sends(SentBy("component_form", "fetch", "GET", CsrfHeader("GET")), "loadColors")

\* the answer to a request of safeFetch arrives
SafeFetchResponse ==
  \E status \in Statuses : \E text \in Bodies :
    /\ call \in {"createColor", "deleteColor", "loadColors"}
    /\ response' = [status |-> status, text |-> text]
    /\ fOut' = safeFetch(status, text)
    /\ alerted' = AlertOf(call, safeFetch(status, text))
    /\ call' = "done"
    /\ UNCHANGED <<documentCookie, cfgCsrfToken, csrfInput, sent, formVars, metricVars,
                   costingVars, pageVars>>

\* ajaxPostJSON of the costing form, the accessory line (part_004 71-94, 591)
AccessoryLine ==
  /\ Idle
  /\ Sends(SentBy("costing", "fetch", "POST",
                  HeaderText(Or(IF getCookie(documentCookie, "csrftoken") = Null THEN Blank
                                ELSE getCookie(documentCookie, "csrftoken"), Blank))),
           "done")

\* a stage action (part_000 28, 71-97)
StageAction ==
  /\ Idle
  /\ Sends(SentBy("stage", "fetch", "POST", HeaderText(getCookie(documentCookie, "csrftoken"))),
           "done")

\* the attendance button (part_001 15, 44-53)
Attendance ==
  /\ Idle
  /\ Sends(SentBy("attendance", "fetch", "POST",
                  HeaderText(getCookie(documentCookie, "csrftoken"))),
           "done")

\* a form of class ajax-form with the method POST (part_001 89-113)
AjaxForm ==
  /\ Idle
  /\ Sends(SentBy("ajax-form", "fetch", "POST",
                  HeaderText(getCookie(documentCookie, "csrftoken"))),
           "done")

\* the mark-read button of a notification (notifications.js 42-67)
MarkRead ==
  /\ Idle
  /\ Sends(SentBy("notifications", "fetch", "POST",
                  HeaderText(getCookie(documentCookie, "csrftoken"))),
           "markRead")

\* the answer says ok: the row is updated (notifications.js 69-84)
MarkedRead ==
  /\ call = "markRead"
  /\ call' = "done"
  /\ UNCHANGED <<documentCookie, cfgCsrfToken, csrfInput, sent, response, fOut, alerted,
                 formVars, metricVars, costingVars,
                 pageVars>>

\* the answer does not say ok, or the request failed: the hidden form is
\* submitted (notifications.js 85-94)
MarkReadFallback ==
  /\ call = "markRead"
  /\ sent' = SentBy("notifications", "submit", "POST", NoHeader)
  /\ call' = "done"
  /\ UNCHANGED <<documentCookie, cfgCsrfToken, csrfInput, response, fOut, alerted,
                 formVars, metricVars, costingVars,
                 pageVars>>

FetchNext ==
  \/ ColorCreate
  \/ ColorDelete
  \/ ColorsLookup
  \/ SafeFetchResponse
  \/ AccessoryLine
  \/ StageAction
  \/ Attendance
  \/ AjaxForm
  \/ MarkRead
  \/ MarkedRead
  \/ MarkReadFallback

FetchSpec == FetchInit /\ [][FetchNext]_vars

-----------------------------------------------------------------------------
(***************************************************************************)
(* Part 4: the controls that disable themselves while their request runs.  *)
(* Stage actions (unnamed/part_000), the mark-read buttons                 *)
(* (staticfiles/workorders/js/notifications.js), the attendance button and *)
(* the forms of class ajax-form (unnamed/part_001) and the Add button of   *)
(* the color widget (static/components/js/component_form.js).  A disabled  *)
(* button receives no click and submits no form, so every user event is    *)
(* guarded by the disabled property the handlers set.  A navigation        *)
(* (form.submit(), location.reload(), location.href) replaces the document *)
(* of its page: its handlers run no more.                                  *)
(***************************************************************************)

MaxClicks == 3

PageOf(c) ==
  IF c \in StageForms THEN "workorder"
  ELSE IF c \in Notifs THEN "notifications"
  ELSE IF c \in {"attendance", "ajaxForm"} THEN "dashboard"
  ELSE "component"

\* the body of an answer: not JSON, or an object with the members the
\* handlers read
NotJson ==
  [json |-> FALSE, ok |-> FALSE, message |-> "", error |-> "", attendance |-> "none",
   next |-> FALSE]

Json(ok, message, error, attendance, next) ==
  [json |-> TRUE, ok |-> ok, message |-> message, error |-> error,
   attendance |-> attendance, next |-> next]

Payloads ==
  {NotJson,
   Json(FALSE, "", "", "none", FALSE),
   Json(FALSE, "Denied", "Denied", "none", FALSE),
   Json(TRUE, "", "", "none", FALSE),
   Json(TRUE, "Done", "", "in", TRUE),
   Json(TRUE, "Done", "", "out", FALSE),
   Json(TRUE, "", "", "empty", FALSE)}

\* fetch rejects
NetworkFailure == [arrived |-> FALSE, ok |-> FALSE, redirected |-> FALSE, payload |-> NotJson]

\* an answer: res.ok, res.redirected and the body
Answers ==
  {NetworkFailure} \cup
  {[arrived |-> TRUE, ok |-> h[1], redirected |-> h[2], payload |-> p] :
     h \in {<<TRUE, FALSE>>, <<TRUE, TRUE>>, <<FALSE, FALSE>>}, p \in Payloads}

CtlRequest(c, step, id, gen) == [control |-> c, step |-> step, id |-> id, gen |-> gen]

RequestsOf(flying, c) == {r \in flying : r.control = c}

\* a || b of two texts
Else(a, b) == IF a = "" THEN b ELSE a

\* the document of a page is replaced: its requests are dropped with it
Leave(k, page) ==
  [k EXCEPT !.pageLeft[page] = TRUE,
            !.inFlight = {r \in @ : PageOf(r.control) # page}]

\* fetch(url, options) of a control
Fetches(k, c, step, gen) ==
  [k EXCEPT !.inFlight = @ \cup {CtlRequest(c, step, k.issued[c] + 1, gen)},
            !.issued[c] = @ + 1]

Answered(k, r) == [k EXCEPT !.inFlight = @ \ {r}]

\* ---- notifications.js

\* a click handler that leaves the button enabled
markReadClickEnabled(k, c) ==
  Fetches([k EXCEPT !.buttons[c].label = "Marking..."], c, "post", 0)

\* the click handler up to the fetch (lines 44-67)
markReadClick(k, c) ==
  Fetches([k EXCEPT !.buttons[c].disabled = TRUE, !.buttons[c].label = "Marking..."],
          c, "post", 0)

\* form.submit() (lines 87, 93): the browser posts the hidden form
formSubmit(k, c) ==
  Leave([k EXCEPT !.issued[c] = @ + 1, !.ended[c] = "fallback"], PageOf(c))

\* a promise chain that falls back only when fetch rejects
markReadAnswerCatchOnly(k, c, a) ==
  IF ~a.arrived THEN formSubmit(k, c)
  ELSE IF a.payload.json /\ a.payload.ok
    THEN [k EXCEPT !.buttons[c].shown = "badge",
                   !.buttons[c].label = "Read",
                   !.shownText["notifications"] = Else(a.payload.message, "Marked as read"),
                   !.ended[c] = "ok"]
  ELSE [k EXCEPT !.ended[c] = "ignored"]

\* the promise chain (lines 68-94)
markReadAnswer(k, c, a) ==
  LET data == IF a.payload.json THEN a.payload
              ELSE [NotJson EXCEPT !.message = "Invalid response"]
  IN IF ~a.arrived THEN formSubmit(k, c)
     ELSE IF data.ok
       THEN [k EXCEPT !.buttons[c].shown = "badge",
                      !.buttons[c].label = "Read",
                      !.shownText["notifications"] = Else(data.message, "Marked as read"),
                      !.ended[c] = "ok"]
     ELSE formSubmit(k, c)

\* ---- stage actions, part_000

\* the submit handler up to the fetch (lines 58-97)
stageSubmit(k, c) == Fetches([k EXCEPT !.buttons[c].disabled = TRUE], c, "post", 0)

\* the update of the rows after a success (lines 110-148)
stageRowAfter(row, c, data) ==
  IF c = "in_progress" THEN [row EXCEPT !.status = "In Progress"]
  ELSE IF c = "complete"
    THEN IF data.next
           THEN [row EXCEPT !.status = "Completed", !.confirmDisabled = FALSE,
                            !.hint = TRUE]
           ELSE [row EXCEPT !.status = "Completed"]
  ELSE [row EXCEPT !.confirmDisabled = TRUE, !.ack = TRUE]

\* then and catch of the promise chain (lines 98-153)
stageThen(k, c, a) ==
  IF ~a.arrived \/ ~a.payload.json
    THEN [k EXCEPT !.shownText["workorder"] =
                     "An error occurred while performing the action.",
                   !.ended[c] = "alert"]
  ELSE IF ~a.payload.ok
    THEN [k EXCEPT !.shownText["workorder"] = Else(a.payload.message, "Action failed"),
                   !.ended[c] = "alert"]
  ELSE [k EXCEPT !.shownText["workorder"] = Else(a.payload.message, "Success"),
                 !.stageRow = stageRowAfter(@, c, a.payload),
                 !.ended[c] = "ok"]

\* a promise chain without its finally
stageAnswerWithoutFinally(k, c, a) == stageThen(k, c, a)

\* the promise chain (lines 98-156): then, catch, finally
stageAnswer(k, c, a) == [stageThen(k, c, a) EXCEPT !.buttons[c].disabled = FALSE]

\* ---- the attendance button and the ajax forms, part_001

\* setLoading (lines 17-27)
setLoading(b, isLoading) ==
  IF isLoading
    THEN [b EXCEPT !.orig = b.label, !.label = "Please wait", !.disabled = TRUE]
  ELSE [b EXCEPT !.label = Else(b.orig, b.label), !.disabled = FALSE]

\* the click handler up to the fetch (lines 30-53)
attendanceClick(k) ==
  Fetches([k EXCEPT !.buttons["attendance"] = setLoading(@, TRUE),
                    !.shownText["dashboard"] = "Saving..."],
          "attendance", "post", 0)

\* the promise chain (lines 54-86)
attendanceAnswer(k, a) ==
  LET data == a.payload
      failure ==
        IF ~a.arrived THEN "Failed to fetch"
        ELSE IF ~a.ok THEN "Server error"
        ELSE IF ~data.json THEN "Invalid JSON response"
        ELSE IF data.ok /\ data.attendance # "none" THEN ""
        ELSE Else(data.error, "Unexpected server response")
      then ==
        IF failure # ""
          THEN [k EXCEPT !.shownText["dashboard"] = failure,
                         !.ended["attendance"] = "error"]
        ELSE IF data.attendance = "out"
          THEN [k EXCEPT !.buttons["attendance"].label = "Login",
                         !.shownText["dashboard"] = "Logged out",
                         !.reloadTimer = TRUE, !.ended["attendance"] = "ok"]
        ELSE IF data.attendance = "in"
          THEN [k EXCEPT !.buttons["attendance"].label = "Logout",
                         !.shownText["dashboard"] = "Logged in",
                         !.reloadTimer = TRUE, !.ended["attendance"] = "ok"]
        ELSE [k EXCEPT !.shownText["dashboard"] = "Attendance recorded",
                       !.reloadTimer = TRUE, !.ended["attendance"] = "ok"]
  IN [then EXCEPT !.buttons["attendance"] = setLoading(@, FALSE)]

\* the submit handler up to the fetch (lines 90-113)
ajaxFormSubmit(k) ==
  Fetches([k EXCEPT !.buttons["ajaxForm"] = setLoading(@, TRUE)], "ajaxForm", "post", 0)

\* the promise chain (lines 114-135)
ajaxFormAnswer(k, a) ==
  LET then ==
        IF ~a.arrived
          THEN [k EXCEPT !.shownText["dashboard"] = "Failed to fetch",
                         !.ended["ajaxForm"] = "error"]
        ELSE IF a.redirected
          THEN Leave([k EXCEPT !.ended["ajaxForm"] = "redirect"], "dashboard")
        ELSE IF ~a.ok
          THEN [k EXCEPT !.shownText["dashboard"] = "Could not submit form",
                         !.ended["ajaxForm"] = "error"]
        ELSE Leave([k EXCEPT !.ended["ajaxForm"] = "reload"], "dashboard")
  IN [then EXCEPT !.buttons["ajaxForm"] = setLoading(@, FALSE)]

\* ---- the Add and Delete buttons of the color widget, component_form.js

\* safeFetch (lines 87-139) throws when fetch rejects or the status is not ok
safeFetchThrows(a) == ~a.arrived \/ ~a.ok

\* the text of the alert (lines 283, 302): e.body.error or the default.  The
\* error safeFetch throws carries the body as text (lines 129-135) and fetch
\* rejects with an error without a body: neither has a member error
colorAlert(a, default) ==
  LET bodyError == ""
  IN Else(bodyError, default)

\* the finally of the Add handler (lines 285-287) enables the button it
\* belongs to: after a rendering that button is no longer in the document
enableAddBtn(k, gen) ==
  IF gen = k.colorWidget.gen THEN [k EXCEPT !.buttons["addColor"].disabled = FALSE]
  ELSE k

\* defaultRenderColors (lines 206-268): a new input and a new Add button
defaultRenderColors(k) ==
  [k EXCEPT !.colorWidget.gen = @ + 1,
            !.colorWidget.input = "",
            !.buttons["addColor"] =
               [shown |-> "button", disabled |-> FALSE, label |-> "Add", orig |-> ""]]

\* the click handler of the Add button up to the first await (lines 269-275)
\* and createColor up to its request (lines 160-167)
addColorClick(k, val) ==
  LET typed == [k EXCEPT !.colorWidget.input = val]
      off == [typed EXCEPT !.buttons["addColor"].disabled = TRUE]
  IN IF val = "" THEN typed
     ELSE IF ~k.colorWidget.compId
       THEN [off EXCEPT !.shownText["component"] = "Failed to create color",
                        !.ended["addColor"] = "alert",
                        !.buttons["addColor"].disabled = FALSE]
     ELSE Fetches(off, "addColor", "create", k.colorWidget.gen)

\* createColor has answered (lines 275-287)
addColorCreated(k, r, a) ==
  IF safeFetchThrows(a)
    THEN enableAddBtn([k EXCEPT !.shownText["component"] =
                                  colorAlert(a, "Failed to create color"),
                                !.ended["addColor"] = "alert"], r.gen)
  ELSE [k EXCEPT !.colorWidget.input = IF r.gen = k.colorWidget.gen THEN "" ELSE @,
                 !.inFlight = @ \cup {[r EXCEPT !.step = "load"]}]

\* loadColors has answered, with colors or with an error that it catches
\* (lines 141-158, 278-287)
addColorLoaded(k, r) ==
  enableAddBtn([defaultRenderColors(k) EXCEPT !.ended["addColor"] = "ok"], r.gen)

\* the click handler of a Delete button up to its request (lines 291-297)
deleteColorClick(k) ==
  [k EXCEPT !.inFlight = @ \cup {CtlRequest("deleteColor", "delete", 0, k.colorWidget.gen)}]

\* deleteColor has answered (lines 297-304)
deleteColorDone(k, r, a) ==
  IF safeFetchThrows(a)
    THEN [k EXCEPT !.shownText["component"] = colorAlert(a, "Failed to delete color")]
  ELSE [k EXCEPT !.inFlight = @ \cup {[r EXCEPT !.step = "load"]}]

\* loadColors has answered (lines 298-300)
deleteColorLoaded(k) == defaultRenderColors(k)

\* ---- the steps

KState ==
  [buttons |-> buttons, inFlight |-> inFlight, issued |-> issued, ended |-> ended,
   pageLeft |-> pageLeft, reloadTimer |-> reloadTimer, stageRow |-> stageRow,
   shownText |-> shownText, colorWidget |-> colorWidget]

KBecomes(k) ==
  /\ buttons' = k.buttons
  /\ inFlight' = k.inFlight
  /\ issued' = k.issued
  /\ ended' = k.ended
  /\ pageLeft' = k.pageLeft
  /\ reloadTimer' = k.reloadTimer
  /\ stageRow' = k.stageRow
  /\ shownText' = k.shownText
  /\ colorWidget' = k.colorWidget
  /\ UNCHANGED <<formVars, metricVars, costingVars, fetchVars, issueVars, accVars,
                 chartVars, chatVars, pollVars>>

KRan(kind, c, result) == [kind |-> kind, control |-> c, result |-> result]

\* the user can act on a control: its page is shown, its button is in the
\* document and is not disabled
Usable(c) ==
  /\ clicks < MaxClicks
  /\ ~pageLeft[PageOf(c)]
  /\ buttons[c].shown = "button"
  /\ ~buttons[c].disabled

\* the answer to request r is handled by the document that sent it
Arrives(r, c, step) ==
  /\ r.control = c
  /\ r.step = step
  /\ ~pageLeft[PageOf(IF c = "deleteColor" THEN "addColor" ELSE c)]

\* the forms of parts 1 to 3 are not in use
NoForms ==
  /\ Starts(CreatePage)
  /\ mIn = NoMetricInput
  /\ mOut = NoMetrics
  /\ NoCostingForm
  /\ NoFetch

\* the pages as the server rendered them
ControlsInit ==
  /\ buttons \in {[c \in Controls |->
                    [shown |-> "button", disabled |-> FALSE,
                     label |-> IF c = "attendance" THEN l ELSE "label", orig |-> ""]] :
                  l \in {"Login", "Logout"}}
  /\ inFlight = {}
  /\ issued = [c \in Controls |-> 0]
  /\ ended = [c \in Controls |-> "none"]
  /\ pageLeft = [p \in ControlPages |-> FALSE]
  /\ reloadTimer = FALSE
  /\ stageRow = [status |-> "Pending", confirmDisabled |-> TRUE, hint |-> FALSE,
                 ack |-> FALSE]
  /\ shownText = [p \in ControlPages |-> ""]
  /\ colorWidget \in [gen : {0}, input : {""}, compId : BOOLEAN]
  /\ clicks = 0
  /\ ctlLast = KRan("none", "none", "none")
  /\ NoForms
  /\ NoIssueForm
  /\ NoAccessory
  /\ NoCharts
  /\ NoChat
  /\ NoPolls

MarkReadClick ==
  \E c \in Notifs :
    /\ Usable(c)
    /\ KBecomes(markReadClick(KState, c))
    /\ clicks' = clicks + 1
    /\ ctlLast' = KRan("click", c, "sent")

MarkReadAnswer ==
  \E r \in inFlight : \E c \in Notifs : \E a \in Answers :
    /\ Arrives(r, c, "post")
    /\ KBecomes(markReadAnswer(Answered(KState, r), c, a))
    /\ ctlLast' = KRan("answer", c, markReadAnswer(Answered(KState, r), c, a).ended[c])
    /\ UNCHANGED clicks

StageSubmit ==
  \E c \in StageForms :
    /\ Usable(c)
    /\ KBecomes(stageSubmit(KState, c))
    /\ clicks' = clicks + 1
    /\ ctlLast' = KRan("click", c, "sent")

StageAnswer ==
  \E r \in inFlight : \E c \in StageForms : \E a \in Answers :
    /\ Arrives(r, c, "post")
    /\ KBecomes(stageAnswer(Answered(KState, r), c, a))
    /\ ctlLast' = KRan("answer", c, stageAnswer(Answered(KState, r), c, a).ended[c])
    /\ UNCHANGED clicks

AttendanceClick ==
  /\ Usable("attendance")
  /\ KBecomes(attendanceClick(KState))
  /\ clicks' = clicks + 1
  /\ ctlLast' = KRan("click", "attendance", "sent")

AttendanceAnswer ==
  \E r \in inFlight : \E a \in Answers :
    /\ Arrives(r, "attendance", "post")
    /\ KBecomes(attendanceAnswer(Answered(KState, r), a))
    /\ ctlLast' = KRan("answer", "attendance",
                       attendanceAnswer(Answered(KState, r), a).ended["attendance"])
    /\ UNCHANGED clicks

\* setTimeout(() => window.location.reload(), 900) fires (part_001 line 77)
AttendanceReload ==
  /\ reloadTimer
  /\ ~pageLeft["dashboard"]
  /\ KBecomes([Leave(KState, "dashboard") EXCEPT !.reloadTimer = FALSE])
  /\ ctlLast' = KRan("reload", "attendance", "reload")
  /\ UNCHANGED clicks

AjaxFormSubmit ==
  /\ Usable("ajaxForm")
  /\ KBecomes(ajaxFormSubmit(KState))
  /\ clicks' = clicks + 1
  /\ ctlLast' = KRan("click", "ajaxForm", "sent")

AjaxFormAnswer ==
  \E r \in inFlight : \E a \in Answers :
    /\ Arrives(r, "ajaxForm", "post")
    /\ KBecomes(ajaxFormAnswer(Answered(KState, r), a))
    /\ ctlLast' = KRan("answer", "ajaxForm",
                       ajaxFormAnswer(Answered(KState, r), a).ended["ajaxForm"])
    /\ UNCHANGED clicks

AddColorClick ==
  \E val \in {"", "Red"} :
    /\ Usable("addColor")
    /\ KBecomes(addColorClick(KState, val))
    /\ clicks' = clicks + 1
    /\ ctlLast' = KRan("click", "addColor",
                       IF val = "" THEN "ignored"
                       ELSE IF colorWidget.compId THEN "sent" ELSE "alert")

AddColorCreated ==
  \E r \in inFlight : \E a \in Answers :
    /\ Arrives(r, "addColor", "create")
    /\ KBecomes(addColorCreated(Answered(KState, r), r, a))
    /\ ctlLast' = KRan(IF safeFetchThrows(a) THEN "answer" ELSE "created", "addColor",
                       IF safeFetchThrows(a) THEN "alert" ELSE "sent")
    /\ UNCHANGED clicks

AddColorLoaded ==
  \E r \in inFlight :
    /\ Arrives(r, "addColor", "load")
    /\ KBecomes(addColorLoaded(Answered(KState, r), r))
    /\ ctlLast' = KRan("answer", "addColor", "ok")
    /\ UNCHANGED clicks

DeleteColorClick ==
  /\ clicks < MaxClicks
  /\ ~pageLeft["component"]
  /\ RequestsOf(inFlight, "deleteColor") = {}
  /\ KBecomes(deleteColorClick(KState))
  /\ clicks' = clicks + 1
  /\ ctlLast' = KRan("click", "deleteColor", "sent")

DeleteColorDone ==
  \E r \in inFlight : \E a \in Answers :
    /\ Arrives(r, "deleteColor", "delete")
    /\ KBecomes(deleteColorDone(Answered(KState, r), r, a))
    /\ ctlLast' = KRan("deleted", "deleteColor",
                       IF safeFetchThrows(a) THEN "alert" ELSE "sent")
    /\ UNCHANGED clicks

DeleteColorLoaded ==
  \E r \in inFlight :
    /\ Arrives(r, "deleteColor", "load")
    /\ KBecomes(deleteColorLoaded(Answered(KState, r)))
    /\ ctlLast' = KRan("answer", "deleteColor", "ok")
    /\ UNCHANGED clicks

ControlsNext ==
  \/ MarkReadClick
  \/ MarkReadAnswer
  \/ StageSubmit
  \/ StageAnswer
  \/ AttendanceClick
  \/ AttendanceAnswer
  \/ AttendanceReload
  \/ AjaxFormSubmit
  \/ AjaxFormAnswer
  \/ AddColorClick
  \/ AddColorCreated
  \/ AddColorLoaded
  \/ DeleteColorClick
  \/ DeleteColorDone
  \/ DeleteColorLoaded

ControlsSpec == ControlsInit /\ [][ControlsNext]_vars


-----------------------------------------------------------------------------
(***************************************************************************)
(* Part 5: the issue-material form, static/issue_material/issue.js.        *)
(*                                                                         *)
(* Every row has the hidden fields content_type_id and object_id, the item *)
(* select with its options loaded, the quantity input, the element         *)
(* .available-stock and the DELETE checkbox of the formset.  The value of  *)
(* the quantity input is text, which the script reads with parseFloat.     *)
(* The script finds the input by its name (input[name$='-qty']), whatever  *)
(* its type: an input of type number holds a decimal number or nothing,    *)
(* an input of type text holds what was typed.                             *)
(***************************************************************************)

MaxIssueEvents == 4

MaxIssueRows == 2

Dash == <<"(dash)">>   \* the text of .available-stock without a figure

\* the items of the answer of items-by-type: id, content_type_id and stock
\* (a number or null)
IssueItems ==
  {[id |-> <<"7">>, ct |-> <<"3">>, stock |-> <<"5">>],
   [id |-> <<"8">>, ct |-> <<"3">>, stock |-> Null],
   [id |-> <<"9">>, ct |-> <<"4">>, stock |-> <<"1", "2">>]}

\* what the user can leave in the quantity input
QtyTexts ==
  {Blank, <<"0">>, <<"3">>, <<"5">>, <<"1", "3">>, <<"-", "2">>, <<"2", ".", "5">>,
   <<"a", "b", "c">>}

\* the longest prefix of s that starts a decimal literal
FloatPrefix(s) ==
  LET starts(t) ==
        LET body == IF t # <<>> /\ t[1] = "-" THEN Tail(t) ELSE t
        IN /\ \A i \in DOMAIN body : IsDigit(body[i]) \/ body[i] = "."
           /\ CountOf(body, ".") <= 1
      n == CHOOSE m \in 0..Len(s) :
             /\ starts(SubSeq(s, 1, m))
             /\ \A l \in (m + 1)..Len(s) : ~starts(SubSeq(s, 1, l))
  IN SubSeq(s, 1, n)

\* parseFloat(s): the value of the longest prefix that is a decimal literal,
\* NaN when that prefix has no digit
parseFloat(s) ==
  LET prefix == FloatPrefix(s)
  IN IF \E i \in DOMAIN prefix : IsDigit(prefix[i]) THEN ToNumber(prefix)
     ELSE [nan |-> TRUE, num |-> 0, den |-> 1]

\* the value of an input after the user typed text into it: the value of an
\* input of type number that is not a decimal number is the empty text
InputValue(type, text) ==
  IF type = "number" /\ (FloatPrefix(text) # text \/ parseFloat(text).nan) THEN Blank
  ELSE text

\* a > b and a <= b of two numbers; every comparison with NaN is false
Greater(a, b) == ~a.nan /\ ~b.nan /\ a.num * b.den > b.num * a.den
AtMost(a, b) == ~a.nan /\ ~b.nan /\ a.num * b.den <= b.num * a.den

Zero == [nan |-> FALSE, num |-> 0, den |-> 1]

\* parseFloat(field.value || 0)
QtyOf(text) == IF text = Blank THEN Zero ELSE parseFloat(text)

\* element.dataset.x = v stores String(v): null becomes the text "null"
DataAttr(v) == IF v = Null THEN <<"n", "u", "l", "l">> ELSE v

IssueRow(del, item, contentType, objectId, stock, qty) ==
  [del |-> del, item |-> item, contentType |-> contentType, objectId |-> objectId,
   stock |-> stock, qty |-> qty]

\* a row of the empty form
EmptyRow == IssueRow(FALSE, Blank, Blank, Blank, Dash, Blank)

\* setHiddenIdsForRow (lines 42-49); stock is text here, never null
setHiddenIdsForRow(row, objectId, contentTypeId, stock) ==
  [row EXCEPT !.contentType = contentTypeId, !.objectId = objectId, !.stock = stock]

\* the change handler of the item select (lines 76-83)
itemChange(row, value) ==
  IF value = Blank THEN setHiddenIdsForRow([row EXCEPT !.item = Blank], Blank, Blank, Dash)
  ELSE LET it == CHOOSE i \in IssueItems : i.id = value
       IN setHiddenIdsForRow([row EXCEPT !.item = value], value, DataAttr(it.ct),
                             DataAttr(it.stock))

\* the blur handler of the quantity input (lines 119-129): the alert or none
qtyBlur(row) ==
  IF row.stock = Blank \/ row.stock = Dash THEN Blank
  ELSE IF Greater(QtyOf(row.qty), parseFloat(row.stock))
    THEN <<"Requested quantity exceeds available stock">>
  ELSE Blank

\* the test of the quantity (line 178)
qtyRejected(row) == AtMost(QtyOf(row.qty), Zero)

\* the body of the loop of the submit handler (lines 167-192): the alert of
\* the row or none
rowAlert(row) ==
  IF row.del THEN Blank
  ELSE IF row.contentType = Blank \/ row.objectId = Blank
    THEN <<"Please select an Item for every row">>
  ELSE IF qtyRejected(row)
    THEN <<"Please enter a quantity greater than 0 for every row">>
  ELSE IF row.stock # Dash /\ row.stock # Blank
          /\ Greater(QtyOf(row.qty), parseFloat(row.stock))
    THEN <<"Requested quantity exceeds available stock for one or more rows">>
  ELSE Blank

\* the submit handler (lines 164-195): the alert of the first row that fails
submitAlert(rows) ==
  IF \A i \in DOMAIN rows : rowAlert(rows[i]) = Blank THEN Blank
  ELSE rowAlert(rows[CHOOSE i \in DOMAIN rows :
                       /\ rowAlert(rows[i]) # Blank
                       /\ \A j \in 1..(i - 1) : rowAlert(rows[j]) = Blank])

IRan(kind, row) == [kind |-> kind, row |-> row]

\* the inventory types of the type select and the items the server lists
\* for each
InvTypes == {<<"fabric">>, <<"accessory">>}

ItemsOfType(type) ==
  IF type = <<"fabric">> THEN {it \in IssueItems : it.ct = <<"3">>}
  ELSE {it \in IssueItems : it.ct = <<"4">>}

\* the options of an item select: the label of its first, empty option and
\* the items below it
Choose(items) == [label |-> "choose item", items |-> items]
FailedToLoad == [label |-> "failed to load", items |-> {}]

\* a row element: the fields of the form with the index idx in their names,
\* the type select and the options of the item select
Line(uid, idx, invType, options) ==
  [del |-> FALSE, item |-> Blank, contentType |-> Blank, objectId |-> Blank,
   stock |-> Dash, qty |-> Blank, uid |-> uid, idx |-> idx, invType |-> invType,
   options |-> options]

\* populateItemSelect (lines 31-40): the options are replaced, which leaves
\* the empty option selected
populateItemSelect(row, items) == [row EXCEPT !.options = Choose(items), !.item = Blank]

\* the change handler of the type select up to the request (lines 59-63)
invTypeChange(row, type) ==
  setHiddenIdsForRow([row EXCEPT !.invType = type, !.options = Choose({}),
                                 !.item = Blank],
                     Blank, Blank, Dash)

\* the then and the catch of fetchItems (lines 64-67)
itemsAnswer(row, type, ok) ==
  IF ok THEN populateItemSelect(row, ItemsOfType(type))
  ELSE [row EXCEPT !.options = FailedToLoad, !.item = Blank]

\* the click handler of the remove button (lines 105-116): the row is marked
\* and hidden, or, without a DELETE checkbox, removed and TOTAL_FORMS lowered
removeClick(f, i) ==
  IF f.hasDelete
    THEN [f EXCEPT !.rows[i].del = TRUE]
    ELSE [f EXCEPT !.rows = RemoveAt(@, i), !.totalForms = @ - 1]

\* addRow (lines 133-149): the template with TOTAL_FORMS for __prefix__ is
\* appended, TOTAL_FORMS is raised and initRow finds no type in the new row
addRow(f) ==
  [f EXCEPT !.rows = Append(@, Line(f.nextRow, f.totalForms, Blank, Choose({}))),
            !.totalForms = @ + 1,
            !.nextRow = @ + 1]

FormState == [rows |-> issueRows, totalForms |-> totalForms, hasDelete |-> hasDelete,
              nextRow |-> nextRow]

FormBecomes(f) ==
  /\ issueRows' = f.rows
  /\ totalForms' = f.totalForms
  /\ nextRow' = f.nextRow
  /\ UNCHANGED <<hasDelete, qtyType>>

\* the form as the server renders it: empty rows with the indices from 0
IssueInit ==
  /\ issueRows \in {[i \in 1..n |-> Line(i, i - 1, Blank, Choose({}))] :
                      n \in 1..MaxIssueRows}
  /\ qtyType \in {"number", "text"}
  /\ totalForms = Len(issueRows)
  /\ hasDelete \in BOOLEAN
  /\ itemRequests = {}
  /\ nextRow = Len(issueRows) + 1
  /\ issueSubmit = "none"
  /\ issueAlert = Blank
  /\ issueEvents = 0
  /\ issueLast = IRan("none", 0)
  /\ NoForms
  /\ NoControls
  /\ NoAccessory
  /\ NoCharts
  /\ NoChat
  /\ NoPolls

\* the form is shown and the user acts on it
IssueShown ==
  /\ issueSubmit # "sent"
  /\ issueEvents < MaxIssueEvents
  /\ issueEvents' = issueEvents + 1
  /\ UNCHANGED <<formVars, metricVars, costingVars, fetchVars, controlVars, accVars,
                 chartVars, chatVars, pollVars>>

\* the rows the user sees
Visible(i) == ~issueRows[i].del

\* the user chooses an inventory type in a row
IssueTypeChange ==
  \E i \in DOMAIN issueRows : \E type \in {Blank} \cup InvTypes :
    /\ IssueShown
    /\ Visible(i)
    /\ type # issueRows[i].invType
    /\ issueRows' = [issueRows EXCEPT ![i] = invTypeChange(@, type)]
    /\ itemRequests' = IF type = Blank THEN itemRequests
                       ELSE itemRequests \cup {[row |-> issueRows[i].uid, type |-> type]}
    /\ issueLast' = IRan("type", i)
    /\ UNCHANGED <<qtyType, totalForms, hasDelete, nextRow, issueSubmit, issueAlert>>

\* an items-by-type request ends, with the items of its type or in failure
IssueItemsAnswer ==
  \E r \in itemRequests : \E ok \in BOOLEAN :
    /\ issueSubmit # "sent"
    /\ itemRequests' = itemRequests \ {r}
    /\ issueRows' = [i \in DOMAIN issueRows |->
                       IF issueRows[i].uid = r.row
                         THEN itemsAnswer(issueRows[i], r.type, ok)
                         ELSE issueRows[i]]
    /\ issueLast' = IRan(IF ok THEN "items" ELSE "no items", 0)
    /\ UNCHANGED <<qtyType, totalForms, hasDelete, nextRow, issueSubmit, issueAlert,
                   issueEvents>>
    /\ UNCHANGED <<formVars, metricVars, costingVars, fetchVars, controlVars, accVars,
                   chartVars, chatVars, pollVars>>

\* the user chooses an option of the item select of a row
IssueItemChange ==
  \E i \in DOMAIN issueRows :
  \E v \in {Blank} \cup {it.id : it \in issueRows[i].options.items} :
    /\ IssueShown
    /\ Visible(i)
    /\ issueRows' = [issueRows EXCEPT ![i] = itemChange(@, v)]
    /\ issueLast' = IRan("item", i)
    /\ UNCHANGED <<qtyType, totalForms, hasDelete, itemRequests, nextRow, issueSubmit,
                   issueAlert>>

\* the user types a quantity and leaves the input
IssueQtyInput ==
  \E i \in DOMAIN issueRows : \E q \in QtyTexts :
    /\ IssueShown
    /\ Visible(i)
    /\ issueRows' = [issueRows EXCEPT ![i].qty = InputValue(qtyType, q)]
    /\ issueAlert' = qtyBlur([issueRows[i] EXCEPT !.qty = InputValue(qtyType, q)])
    /\ issueLast' = IRan("qty", i)
    /\ UNCHANGED <<qtyType, totalForms, hasDelete, itemRequests, nextRow, issueSubmit>>

\* the user removes a row
IssueRemoveRow ==
  \E i \in DOMAIN issueRows :
    /\ IssueShown
    /\ Visible(i)
    /\ FormBecomes(removeClick(FormState, i))
    /\ issueLast' = IRan("remove", i)
    /\ UNCHANGED <<itemRequests, issueSubmit, issueAlert>>

\* the user adds a row
IssueAddRow ==
  /\ IssueShown
  /\ Len(issueRows) < MaxIssueRows
  /\ FormBecomes(addRow(FormState))
  /\ issueLast' = IRan("add", Len(issueRows) + 1)
  /\ UNCHANGED <<itemRequests, issueSubmit, issueAlert>>

\* the submit event of #issue-form: the handler lets the browser send the
\* form or prevents it with an alert
IssueSubmit ==
  /\ issueSubmit # "sent"
  /\ issueSubmit' = IF submitAlert(issueRows) = Blank THEN "sent" ELSE "blocked"
  /\ issueAlert' = submitAlert(issueRows)
  /\ issueLast' = IRan("submit", 0)
  /\ UNCHANGED <<issueRows, qtyType, totalForms, hasDelete, itemRequests, nextRow,
                 issueEvents>>
  /\ UNCHANGED <<formVars, metricVars, costingVars, fetchVars, controlVars, accVars,
                 chartVars, chatVars, pollVars>>

IssueNext ==
  \/ IssueTypeChange
  \/ IssueItemsAnswer
  \/ IssueItemChange
  \/ IssueQtyInput
  \/ IssueRemoveRow
  \/ IssueAddRow
  \/ IssueSubmit

IssueSpec == IssueInit /\ [][IssueNext]_vars

-----------------------------------------------------------------------------
(***************************************************************************)
(* Part 6: the accessory line of the costing form, unnamed/part_004        *)
(* 531-634 (the same code in unnamed/part_003).  The page has the          *)
(* accessory select, whose options carry the unit cost and the stock of    *)
(* their accessory as data attributes, the quantity input, the unit price, *)
(* line total and stock fields.  compute_accessory_line has a default URL  *)
(* (line 33), so every computation asks the server first.                  *)
(***************************************************************************)

MaxAccEvents == 3

MaxAccInFlight == 2

\* the options of the accessory select: id and the data attributes
AccOptions ==
  {[id |-> <<"4">>, unit_cost |-> <<"1", "0">>, stock |-> <<"7">>],
   [id |-> <<"5">>, unit_cost |-> <<"2", ".", "5">>, stock |-> <<"1", ".", "5">>]}

\* what the user can type into the quantity input
AccQtyTexts == {Blank, <<"0">>, <<"1">>, <<"1", "2">>, <<"5">>, <<"-", "2">>, <<"2", ".", "5">>}

\* v || 0 of a number
NumOr0(n) == IF n.nan THEN Zero ELSE n

Times(a, b) == [nan |-> a.nan \/ b.nan, num |-> a.num * b.num, den |-> a.den * b.den]

\* String(n) of a number with at most one decimal
NumberText(n) ==
  IF n.num % n.den = 0
    THEN (IF n.num < 0 THEN <<"-">> ELSE <<>>) \o NatDigits(Abs(n.num) \div n.den, 1)
  ELSE (IF n.num < 0 THEN <<"-">> ELSE <<>>)
         \o NatDigits(Abs(n.num) \div n.den, 1) \o <<".">>
         \o NatDigits(((Abs(n.num) * 10) \div n.den) % 10, 1)

\* fmt2 (line 10): (Number(v) || 0).toFixed(2)
fmt2(n) ==
  LET v == NumOr0(n)
  IN toFixed(v.num < 0, RoundDiv(Abs(v.num) * 100, v.den), 2)

\* the stock display of setAccessoryFieldsFromDetail (line 537)
StockText(stock) ==
  IF CountOf(stock, ".") > 0 THEN stock
  ELSE LET v == NumOr0(ToNumber(stock))
       IN toFixed(v.num < 0, RoundDiv(Abs(v.num) * 1000, v.den), 3)

AccRequest(id, qty, n) == [id |-> id, qty |-> qty, n |-> n]

\* unit * qty of the fallback (lines 593-596, 611-614), unit read from the
\* unit price field
localLine(a, qty) == fmt2(Times(NumOr0(ToNumber(a.unitPrice)), qty))

\* computeAccessoryLineAndSet up to its request (lines 580-591)
computeAccessoryLineAndSet(a, accessory_id, quantity, n) ==
  IF accessory_id = Blank THEN [a EXCEPT !.lineTotal = fmt2(Zero)]
  ELSE LET q == NumOr0(quantity)
           qty == IF q.num < 0 THEN Zero ELSE q
       IN [a EXCEPT !.pending = @ \cup {AccRequest(accessory_id, qty, n)}]

\* the answers of compute_accessory_line: no answer or a status that is not
\* ok, a body with the member error, the unit price and the line total
AccOutcomes == {"unreachable", "error", "ok"}

\* the price the server knows for an accessory
ServerUnitPrice(id) == ToNumber((CHOOSE o \in AccOptions : o.id = id).unit_cost)

\* the callback of the request (lines 591-607)
accessoryLineCallback(a, r, outcome) ==
  IF outcome # "ok" THEN [a EXCEPT !.lineTotal = localLine(a, r.qty)]
  ELSE [a EXCEPT !.unitPrice = fmt2(ServerUnitPrice(r.id)),
                 !.lineTotal = fmt2(Times(ServerUnitPrice(r.id), r.qty))]

\* onAccessoryQtyChange (lines 618-622)
onAccessoryQtyChange(a, n) ==
  computeAccessoryLineAndSet(a, a.select, NumOr0(ToNumber(a.quantity)), n)

\* onAccessoryAddClick (lines 624-634)
onAccessoryAddClick(a, n) ==
  LET cur == NumOr0(ToNumber(a.quantity))
      next == [cur EXCEPT !.num = @ + cur.den]
  IN onAccessoryQtyChange([a EXCEPT !.quantity = NumberText(next)], n)

\* setAccessoryFieldsFromDetail (lines 531-540)
setAccessoryFieldsFromDetail(a, d, n) ==
  computeAccessoryLineAndSet(
    [a EXCEPT !.unitPrice = fmt2(ToNumber(d.unit_cost)), !.stock = StockText(d.stock)],
    d.id, ToNumber(a.quantity), n)

\* onAccessoryChange (lines 542-569), the option carrying its data
onAccessoryChange(a, val, n) ==
  IF val = Blank
    THEN [a EXCEPT !.select = Blank, !.unitPrice = fmt2(Zero), !.lineTotal = fmt2(Zero),
                   !.stock = <<"0", ".", "0", "0", "0">>]
  ELSE setAccessoryFieldsFromDetail([a EXCEPT !.select = val],
                                    CHOOSE o \in AccOptions : o.id = val, n)

AState ==
  [select |-> accessorySelect, quantity |-> accessoryQuantityEl,
   unitPrice |-> accessoryUnitPriceHidden, lineTotal |-> accessoryLineTotalHidden,
   stock |-> accessoryStockDisplay, pending |-> accPending]

ABecomes(a) ==
  /\ accessorySelect' = a.select
  /\ accessoryQuantityEl' = a.quantity
  /\ accessoryUnitPriceHidden' = a.unitPrice
  /\ accessoryLineTotalHidden' = a.lineTotal
  /\ accessoryStockDisplay' = a.stock
  /\ accPending' = a.pending
  /\ UNCHANGED <<formVars, metricVars, costingVars, fetchVars, controlVars,
                 issueVars, chartVars, chatVars, pollVars>>

ARan(kind, outcome, qty) == [kind |-> kind, outcome |-> outcome, qty |-> qty]

\* a user event on the accessory
AccUserEvent ==
  /\ accEvents < MaxAccEvents
  /\ Cardinality(accPending) < MaxAccInFlight
  /\ accEvents' = accEvents + 1

\* the costing form as the server renders it: no accessory chosen
AccessoryInit ==
  /\ accessorySelect = Blank
  /\ accessoryQuantityEl \in {Blank, <<"1">>}
  /\ accessoryUnitPriceHidden = fmt2(Zero)
  /\ accessoryLineTotalHidden = fmt2(Zero)
  /\ accessoryStockDisplay = <<"0", ".", "0", "0", "0">>
  /\ accPending = {}
  /\ accEvents = 0
  /\ accLast = ARan("none", "none", Zero)
  /\ NoForms
  /\ NoControls
  /\ NoIssueForm
  /\ NoCharts
  /\ NoChat
  /\ NoPolls

AccessoryChange ==
  \E val \in {Blank} \cup {o.id : o \in AccOptions} :
    /\ AccUserEvent
    /\ ABecomes(onAccessoryChange(AState, val, accEvents + 1))
    /\ accLast' = ARan("accessory", "none", Zero)

AccessoryQtyInput ==
  \E text \in AccQtyTexts :
    /\ AccUserEvent
    /\ ABecomes(onAccessoryQtyChange([AState EXCEPT !.quantity = text], accEvents + 1))
    /\ accLast' = ARan("quantity", "none", Zero)

AccessoryAddClick ==
  /\ AccUserEvent
  /\ ABecomes(onAccessoryAddClick(AState, accEvents + 1))
  /\ accLast' = ARan("add", "none", Zero)

AccessoryLineAnswer ==
  \E r \in accPending : \E outcome \in AccOutcomes :
    /\ ABecomes(accessoryLineCallback([AState EXCEPT !.pending = @ \ {r}], r, outcome))
    /\ accLast' = ARan("answer", outcome, r.qty)
    /\ UNCHANGED accEvents

AccessoryNext ==
  \/ AccessoryChange
  \/ AccessoryQtyInput
  \/ AccessoryAddClick
  \/ AccessoryLineAnswer

AccessorySpec == AccessoryInit /\ [][AccessoryNext]_vars

-----------------------------------------------------------------------------
(***************************************************************************)
(* Part 7: the dashboard charts (static/core/js/dashboard.js 185-250 and   *)
(* unnamed/part_001 149-296).  A page carries one of the two scripts.  A   *)
(* chart instance is a record [id, canvas]; Chart.js itself is outside the *)
(* program: its constructor draws on the canvas or throws, and destroy     *)
(* releases the canvas.                                                    *)
(***************************************************************************)

MaxScriptLoads == 2   \* the script runs at most this often on a page

\* initWhenReady gives up after this many checks (dashboard.js line 198)
max == 40

\* watchForChartJs gives up after this many checks (part_001 line 285)
maxAttempts == 10

ChartKeys == {"inventoryPie", "ordersLine", "stockUsed"}

\* the canvas each key of the registry is drawn on
CanvasOf(key) ==
  CASE key = "inventoryPie" -> "inventoryPieChart"
    [] key = "ordersLine" -> "ordersLineChart"
    [] OTHER -> "stockUsedChart"

ChartCanvases == {CanvasOf(key) : key \in ChartKeys}

\* whether each `new Chart` of one run fails
ChartFailures == [ChartKeys -> BOOLEAN]

\* inst.destroy()
destroyKeepsCanvas(h, id) == h
destroy(h, id) == [h EXCEPT !.liveCharts = {c \in @ : c.id # id}]

\* new Chart(ctx, config) on the canvas of a key, stored under the key
newChart(h, key) ==
  [h EXCEPT !.liveCharts = @ \cup {[id |-> h.nextChart, canvas |-> CanvasOf(key)]},
            !.instances.at[key] = h.nextChart,
            !.nextChart = @ + 1]

\* createPie, createLine and createStockUsedChart of dashboard.js: null when
\* the canvas is missing, has no 2D context or Chart throws; the caller
\* stores the result under the key (lines 225, 236, 248)
createChart(h, key, fails) ==
  IF CanvasOf(key) \notin h.canvases \/ fails
    THEN [h EXCEPT !.instances.at[key] = 0]
    ELSE newChart(h, key)

createPie(h, fails) == createChart(h, "inventoryPie", fails)

createLine(h, fails) == createChart(h, "ordersLine", fails)

\* the three base series of the stock-used chart (dashboard.js 137-139)
BaseLabels == <<<<"Fabric added">>, <<"Accessories used">>, <<"Printed added">>>>

\* the order numbers of window.__LIVE_LINEN_CHARTS.stockUsed.orders, in the
\* order of Object.keys; none when the template injected no state
Orders == <<"101", "102">>

OrderKeys(h) == IF h.chartsState.defined THEN Orders ELSE <<>>

\* "Order #" + orderNo (lines 147, 272)
OrderLabel(orderNo) == <<"Order #", orderNo>>

\* makeDataset (lines 26-39), as far as label and hidden go
makeDataset(label, isHidden) == [label |-> label, hidden |-> isHidden]

\* the datasets createStockUsedChart builds (lines 136-149)
StockDatasets(orderKeys) ==
  [i \in 1..Len(BaseLabels) |-> makeDataset(BaseLabels[i], FALSE)]
    \o [i \in 1..Len(orderKeys) |-> makeDataset(OrderLabel(orderKeys[i]), TRUE)]

\* createStockUsedChart (lines 110-183)
createStockUsedChart(h, fails) ==
  LET c == createChart(h, "stockUsed", fails)
  IN IF c.instances.at["stockUsed"] = 0 THEN c
     ELSE [c EXCEPT !.datasets =
             @ @@ (c.instances.at["stockUsed"] :> StockDatasets(OrderKeys(h)))]

\* the first index of sets from index `from` whose label is the label, 0
\* without one
RECURSIVE FirstLabelled(_, _, _)
FirstLabelled(sets, label, from) ==
  IF from > Len(sets) THEN 0
  ELSE IF sets[from].label = label THEN from
  ELSE FirstLabelled(sets, label, from + 1)

\* baseOrderIndex (line 265): the datasets before the first order dataset
baseOrderIndex == 3

\* a change listener that shows the chosen order and hides no other
orderSelectChangeWithoutHiding(h, chart) ==
  LET sets == h.datasets[chart]
      val == h.orderSelect.value
      target == IF val # "" /\ val # "__none__"
                  THEN FirstLabelled(sets, OrderLabel(val), baseOrderIndex + 1)
                  ELSE 0
  IN [h EXCEPT !.datasets[chart] =
        [i \in 1..Len(sets) |->
           IF i = target THEN [sets[i] EXCEPT !.hidden = FALSE] ELSE sets[i]]]

\* the change listener of #orderSelect (lines 260-283): every dataset from
\* baseOrderIndex on is hidden, then the first one labelled with the chosen
\* order is shown
orderSelectChange(h, chart) ==
  LET sets == h.datasets[chart]
      val == h.orderSelect.value
      target == IF val # "" /\ val # "__none__"
                  THEN FirstLabelled(sets, OrderLabel(val), baseOrderIndex + 1)
                  ELSE 0
  IN [h EXCEPT !.datasets[chart] =
        [i \in 1..Len(sets) |->
           IF i = target THEN [sets[i] EXCEPT !.hidden = FALSE]
           ELSE IF i > baseOrderIndex THEN [sets[i] EXCEPT !.hidden = TRUE]
           ELSE sets[i]]]

\* toggleByLabel (lines 301-312)
toggleByLabel(h, chart, lbl, checked) ==
  [h EXCEPT !.datasets[chart] =
     [i \in 1..Len(@) |->
        IF @[i].label = lbl THEN [@[i] EXCEPT !.hidden = ~checked] ELSE @[i]]]

\* the wiring of #orderSelect (lines 253-287): with the select and a chart,
\* the options are written anew and a change listener is added
wireOrderSelect(h) ==
  IF h.orderSelect.present /\ h.instances.at["stockUsed"] # 0
    THEN [h EXCEPT !.orderSelect.options = <<"__none__">> \o OrderKeys(h),
                   !.orderSelect.value = "__none__",
                   !.selectListeners = Append(@, h.instances.at["stockUsed"])]
    ELSE h

\* the wiring of the three checkboxes (lines 290-336)
wireCheckboxes(h) ==
  IF h.instances.at["stockUsed"] # 0
    THEN [h EXCEPT !.toggleListeners = Append(@, h.instances.at["stockUsed"])]
    ELSE h

\* the browser calls the change listeners of #orderSelect one after the other
RECURSIVE callSelectListeners(_, _)
callSelectListeners(h, charts) ==
  IF charts = <<>> THEN h
  ELSE callSelectListeners(orderSelectChange(h, Head(charts)), Tail(charts))

\* the browser calls the change listeners of a checkbox one after the other
RECURSIVE callToggleListeners(_, _, _, _)
callToggleListeners(h, charts, lbl, checked) ==
  IF charts = <<>> THEN h
  ELSE callToggleListeners(toggleByLabel(h, Head(charts), lbl, checked),
                           Tail(charts), lbl, checked)

RECURSIVE DestroyAll(_, _)
DestroyAll(h, ids) ==
  IF ids = {} THEN h
  ELSE LET id == CHOOSE i \in ids : TRUE
       IN DestroyAll(destroy(h, id), ids \ {id})

\* dashboard.js 211-220: every instance of the registry is destroyed (a
\* null entry throws, which is ignored) and the registry is kept
destroyPrevious(h) ==
  LET d == IF h.instances.defined
             THEN DestroyAll(h, {h.instances.at[key] : key \in ChartKeys} \ {0})
             ELSE h
  IN [d EXCEPT !.instances.defined = TRUE]

\* the function dashboard.js hands to initWhenReady (lines 207-337)
initCallback(h, f) ==
  wireCheckboxes(wireOrderSelect(
    createStockUsedChart(
      createLine(createPie(destroyPrevious(h), f["inventoryPie"]), f["ordersLine"]),
      f["stockUsed"])))

\* readyCheck of initWhenReady (lines 186-195)
isReady(h) == h.chartDefined /\ h.readyState # "loading"

readyCheck(h, f) ==
  IF isReady(h) THEN [initCallback(h, f) EXCEPT !.fnRuns = @ + 1] ELSE h

\* initWhenReady (lines 185-205): the function runs at once or an interval
\* timer of 200 ms starts
initWhenReady(h, f) ==
  IF isReady(h)
    THEN readyCheck(h, f)
    ELSE [h EXCEPT !.chartTimers = Append(@, 0)]

\* one tick of the interval of initWhenReady (lines 199-202)
initWhenReadyTick(h, i, f) ==
  LET r == readyCheck(h, f)
  IN IF isReady(h) \/ h.chartTimers[i] + 1 >= max
       THEN [r EXCEPT !.chartTimers = RemoveAt(@, i)]
       ELSE [r EXCEPT !.chartTimers[i] = @ + 1]

\* part_001 168-199 and 203-259: one chart of renderDashboardCharts.  With a
\* canvas and data, the instance of the key is destroyed when it is a Chart
\* and the new one is stored unless Chart throws
renderChart(h, key, hasData, fails) ==
  IF CanvasOf(key) \in h.canvases /\ hasData
    THEN LET d == IF h.instances.at[key] # 0
                    THEN destroy(h, h.instances.at[key])
                    ELSE h
         IN IF fails THEN d ELSE newChart(d, key)
    ELSE h

\* renderDashboardCharts (part_001 149-264): nothing without Chart; line 164
\* throws when the template injected no window.__LIVE_LINEN_CHARTS
renderDashboardCharts(h, f) ==
  IF ~h.chartDefined \/ ~h.chartsState.defined
    THEN h
    ELSE renderChart(
           renderChart([h EXCEPT !.instances.defined = TRUE],
                       "inventoryPie", h.chartsState.pie, f["inventoryPie"]),
           "ordersLine", h.chartsState.line, f["ordersLine"])

\* tryInitCharts (part_001 267-273)
tryInitCharts(h, f) == renderDashboardCharts(h, f)

\* watchForChartJs (part_001 281-295): an interval timer of 500 ms unless
\* Chart is there
watchForChartJs(h) ==
  IF h.chartDefined THEN h ELSE [h EXCEPT !.chartTimers = Append(@, 0)]

\* one tick of the interval of watchForChartJs (lines 286-294)
watchTick(h, i, f) ==
  IF h.chartDefined
    THEN [tryInitCharts(h, f) EXCEPT !.chartTimers = RemoveAt(@, i)]
    ELSE IF h.chartTimers[i] + 1 >= maxAttempts
           THEN [h EXCEPT !.chartTimers = RemoveAt(@, i)]
           ELSE [h EXCEPT !.chartTimers[i] = @ + 1]

\* the chart part of the script part_001 (lines 275-295)
chartsScript(h, f) ==
  watchForChartJs(IF h.readyState = "loading"
                    THEN [h EXCEPT !.domListeners = @ + 1]
                    ELSE tryInitCharts(h, f))

\* the browser calls the DOMContentLoaded listeners one after the other
RECURSIVE callListeners(_, _)
callListeners(h, fs) ==
  IF fs = <<>> THEN h
  ELSE callListeners(tryInitCharts(h, Head(fs)), Tail(fs))

HState ==
  [chartDefined |-> chartDefined, readyState |-> readyState, canvases |-> canvases,
   chartsState |-> chartsState, instances |-> instances, liveCharts |-> liveCharts,
   nextChart |-> nextChart, chartTimers |-> chartTimers,
   domListeners |-> domListeners, datasets |-> datasets,
   orderSelect |-> orderSelect, selectListeners |-> selectListeners,
   toggleListeners |-> toggleListeners, seriesBoxes |-> seriesBoxes,
   fnRuns |-> fnRuns]

HBecomes(h) ==
  /\ chartDefined' = h.chartDefined
  /\ readyState' = h.readyState
  /\ instances' = h.instances
  /\ liveCharts' = h.liveCharts
  /\ nextChart' = h.nextChart
  /\ chartTimers' = h.chartTimers
  /\ domListeners' = h.domListeners
  /\ datasets' = h.datasets
  /\ orderSelect' = h.orderSelect
  /\ selectListeners' = h.selectListeners
  /\ toggleListeners' = h.toggleListeners
  /\ seriesBoxes' = h.seriesBoxes
  /\ fnRuns' = h.fnRuns
  /\ UNCHANGED <<chartScript, canvases, chartsState>>
  /\ UNCHANGED <<formVars, metricVars, costingVars, fetchVars, controlVars,
                 issueVars, accVars, chatVars, pollVars>>

\* the canvases a template may carry: all, the pie alone, none
CanvasSets == {ChartCanvases, {"inventoryPieChart"}, {}}

\* window.__LIVE_LINEN_CHARTS: absent, or with the data of both charts or of
\* the pie alone
ChartsStates ==
  {[defined |-> FALSE, pie |-> FALSE, line |-> FALSE],
   [defined |-> TRUE, pie |-> TRUE, line |-> TRUE],
   [defined |-> TRUE, pie |-> TRUE, line |-> FALSE]}

\* the dashboard as the server renders it, before its script runs
ChartsInit ==
  /\ chartScript \in {"dashboard.js", "part_001"}
  /\ chartDefined \in BOOLEAN
  /\ readyState \in {"loading", "complete"}
  /\ canvases \in CanvasSets
  /\ chartsState \in ChartsStates
  /\ instances = [defined |-> FALSE, at |-> [key \in ChartKeys |-> 0]]
  /\ liveCharts = {}
  /\ nextChart = 1
  /\ chartTimers = <<>>
  /\ domListeners = 0
  /\ scriptLoads = 0
  /\ datasets = <<>>
  /\ orderSelect = [present |-> TRUE, options |-> <<>>, value |-> ""]
  /\ selectListeners = <<>>
  /\ toggleListeners = <<>>
  /\ seriesBoxes = [i \in {BaseLabels[j] : j \in 1..Len(BaseLabels)} |-> TRUE]
  /\ stockEvents = 0
  /\ fnRuns = 0
  /\ chartLast = "none"
  /\ NoForms
  /\ NoControls
  /\ NoIssueForm
  /\ NoAccessory
  /\ NoChat
  /\ NoPolls

\* the script of the page runs
ScriptRuns ==
  \E f \in ChartFailures :
    /\ scriptLoads < MaxScriptLoads
    /\ scriptLoads' = scriptLoads + 1
    /\ HBecomes(IF chartScript = "dashboard.js"
                  THEN initWhenReady(HState, f)
                  ELSE chartsScript(HState, f))
    /\ chartLast' = "script"
    /\ UNCHANGED stockEvents

\* an interval timer of the script fires
ChartTimerFires ==
  \E i \in 1..Len(chartTimers) : \E f \in ChartFailures :
    /\ HBecomes(IF chartScript = "dashboard.js"
                  THEN initWhenReadyTick(HState, i, f)
                  ELSE watchTick(HState, i, f))
    /\ chartLast' = "timer"
    /\ UNCHANGED scriptLoads
    /\ UNCHANGED stockEvents

\* the document is parsed: readyState changes and DOMContentLoaded fires
DomContentLoaded ==
  \E fs \in [1..domListeners -> ChartFailures] :
    /\ readyState = "loading"
    /\ HBecomes(callListeners([HState EXCEPT !.readyState = "complete",
                                             !.domListeners = 0], fs))
    /\ chartLast' = "DOMContentLoaded"
    /\ UNCHANGED scriptLoads
    /\ UNCHANGED stockEvents

\* the Chart.js script of the page arrives
ChartJsArrives ==
  /\ ~chartDefined
  /\ HBecomes([HState EXCEPT !.chartDefined = TRUE])
  /\ chartLast' = "Chart.js"
  /\ UNCHANGED scriptLoads
  /\ UNCHANGED stockEvents

ChartsNext ==
  \/ ScriptRuns
  \/ ChartTimerFires
  \/ DomContentLoaded
  \/ ChartJsArrives

ChartsSpec == ChartsInit /\ [][ChartsNext]_vars

MaxStockEvents == 3   \* the user changes the select and the checkboxes this often

\* the dashboard with Chart.js loaded and the document parsed, before
\* dashboard.js runs: the template may lack #orderSelect, and the browser may
\* have restored any state of the three checkboxes
StockChartInit ==
  /\ chartScript = "dashboard.js"
  /\ chartDefined = TRUE
  /\ readyState = "complete"
  /\ canvases \in {ChartCanvases, {"inventoryPieChart"}}
  /\ chartsState \in ChartsStates
  /\ instances = [defined |-> FALSE, at |-> [key \in ChartKeys |-> 0]]
  /\ liveCharts = {}
  /\ nextChart = 1
  /\ chartTimers = <<>>
  /\ domListeners = 0
  /\ scriptLoads = 0
  /\ datasets = <<>>
  /\ orderSelect \in [present : BOOLEAN, options : {<<>>}, value : {""}]
  /\ selectListeners = <<>>
  /\ toggleListeners = <<>>
  /\ seriesBoxes \in [{BaseLabels[j] : j \in 1..Len(BaseLabels)} -> BOOLEAN]
  /\ stockEvents = 0
  /\ fnRuns = 0
  /\ chartLast = "none"
  /\ NoForms
  /\ NoControls
  /\ NoIssueForm
  /\ NoAccessory
  /\ NoChat
  /\ NoPolls

\* the user chooses another option of #orderSelect
OrderSelectChange ==
  \E v \in {orderSelect.options[i] : i \in 1..Len(orderSelect.options)}
           \ {orderSelect.value} :
    /\ orderSelect.present
    /\ stockEvents < MaxStockEvents
    /\ HBecomes(callSelectListeners([HState EXCEPT !.orderSelect.value = v],
                                    selectListeners))
    /\ stockEvents' = stockEvents + 1
    /\ chartLast' = "orderSelect"
    /\ UNCHANGED scriptLoads

\* the user ticks or unticks the checkbox of a base series
SeriesToggle ==
  \E lbl \in DOMAIN seriesBoxes :
    /\ stockEvents < MaxStockEvents
    /\ HBecomes(callToggleListeners([HState EXCEPT !.seriesBoxes[lbl] = ~@],
                                    toggleListeners, lbl, ~seriesBoxes[lbl]))
    /\ stockEvents' = stockEvents + 1
    /\ chartLast' = "toggle"
    /\ UNCHANGED scriptLoads

StockChartNext ==
  \/ ScriptRuns
  \/ OrderSelectChange
  \/ SeriesToggle

StockChartSpec == StockChartInit /\ [][StockChartNext]_vars

-----------------------------------------------------------------------------
(***************************************************************************)
(* Part 8: the chat client (staticfiles/chat/js/chat.js).  A WebSocket is  *)
(* its readyState; the sockets the client replaced and that are not closed *)
(* yet still deliver their events to the same handlers.  The browser moves *)
(* a socket from CONNECTING to OPEN (open event) and from any state to     *)
(* CLOSED (close event, after an error event when the connection failed);  *)
(* socket.close() moves a CONNECTING or OPEN socket to CLOSING.            *)
(***************************************************************************)

MaxChatEvents == 3   \* user events on the chat
MaxReconnects == 6   \* reconnects in a row: the delay reaches its maximum

RECONNECT_BASE_MS == 1000

RECONNECT_MAX_MS == 30000

\* Math.floor(Math.random() * 500) is below this (line 82)
JitterLimit == 500

Jitters == {0, JitterLimit - 1}

Min(a, b) == IF a <= b THEN a ELSE b

\* connect (lines 54-73)
connect(c) ==
  IF c.socket \in {"OPEN", "CONNECTING"}
    THEN c
    ELSE [c EXCEPT !.replaced = IF c.socket \in {"null", "CLOSED"}
                                  THEN @ ELSE Append(@, c.socket),
                   !.socket = "CONNECTING",
                   !.pinged = FALSE,
                   !.wsStatus = "connecting",
                   !.made = @ + 1]

\* scheduleReconnect (lines 75-87)
scheduleReconnectFlat(c, jitter) ==
  IF c.manualClose THEN c
  ELSE [c EXCEPT !.reconnectAttempts = @ + 1,
                 !.reconnectTimer = [pending |-> TRUE, wait |-> RECONNECT_BASE_MS + jitter]]
scheduleReconnect(c, jitter) ==
  IF c.manualClose THEN c
  ELSE [c EXCEPT !.reconnectAttempts = @ + 1,
                 !.reconnectTimer =
                    [pending |-> TRUE,
                     wait |-> Min(RECONNECT_BASE_MS * 2 ^ c.reconnectAttempts,
                                  RECONNECT_MAX_MS) + jitter]]

\* stopHeartbeat (lines 109-113)
stopHeartbeat(c) ==
  [c EXCEPT !.heartbeatTimer = FALSE, !.heartbeatTimeoutTimer = FALSE]

\* startHeartbeat (lines 90-107): the interval is set
startHeartbeat(c) == [stopHeartbeat(c) EXCEPT !.heartbeatTimer = TRUE]

\* the callback of the interval (lines 92-106): a ping and its timeout
heartbeatTick(c) ==
  IF c.socket # "OPEN" THEN c
  ELSE [c EXCEPT !.pinged = TRUE, !.heartbeatTimeoutTimer = TRUE]

\* socket.close() on the current socket
close(c) ==
  IF c.socket \in {"CONNECTING", "OPEN"} THEN [c EXCEPT !.socket = "CLOSING"] ELSE c

\* the callback of the heartbeat timeout (lines 97-102)
heartbeatTimeout(c) == close([c EXCEPT !.heartbeatTimeoutTimer = FALSE])

\* onOpen (lines 116-122)
onOpen(c) ==
  startHeartbeat([c EXCEPT !.reconnectAttempts = 0,
                           !.wsStatus = "connected",
                           !.reconnectTimer.pending = FALSE])

\* onMessage for a pong (lines 137-141)
onPong(c) == [c EXCEPT !.heartbeatTimeoutTimer = FALSE]

\* onClose (lines 188-194)
onClose(c, jitter) ==
  LET s == stopHeartbeat([c EXCEPT !.wsStatus = "disconnected"])
  IN IF ~s.manualClose THEN scheduleReconnect(s, jitter) ELSE s

\* onError (lines 196-199)
onError(c) == [c EXCEPT !.wsStatus = "error"]

\* window.liveLinenChat.connect (lines 357-360)
apiConnect(c) == connect([c EXCEPT !.manualClose = FALSE])

\* window.liveLinenChat.close (lines 361-364) and the beforeunload listener
\* (lines 371-376)
apiClose(c) == close([c EXCEPT !.manualClose = TRUE])

\* the visibilitychange listener (lines 378-384)
visibilityChange(c) ==
  IF c.hidden THEN stopHeartbeat(c)
  ELSE IF c.socket # "OPEN" THEN connect(c) ELSE c

ChatState ==
  [socket |-> socket, replaced |-> replaced, reconnectAttempts |-> reconnectAttempts,
   reconnectTimer |-> reconnectTimer, heartbeatTimer |-> heartbeatTimer,
   heartbeatTimeoutTimer |-> heartbeatTimeoutTimer, manualClose |-> manualClose,
   hidden |-> hidden, wsStatus |-> wsStatus, pinged |-> pinged, made |-> 0]

\* the state of the chat becomes c; kind names the step, nth the reconnects
\* scheduled in a row when it is over
ChatBecomes(c, kind, nth) ==
  /\ socket' = c.socket
  /\ replaced' = c.replaced
  /\ reconnectAttempts' = c.reconnectAttempts
  /\ reconnectTimer' = c.reconnectTimer
  /\ heartbeatTimer' = c.heartbeatTimer
  /\ heartbeatTimeoutTimer' = c.heartbeatTimeoutTimer
  /\ manualClose' = c.manualClose
  /\ hidden' = c.hidden
  /\ wsStatus' = c.wsStatus
  /\ pinged' = c.pinged
  /\ chatLast' = [kind |-> kind, made |-> c.made, manual |-> manualClose, nth |-> nth]
  /\ UNCHANGED <<formVars, metricVars, costingVars, fetchVars, controlVars,
                 issueVars, accVars, chartVars, pollVars>>

\* the page after the script ran: connect() was called (line 369)
ChatInit ==
  /\ socket = "CONNECTING"
  /\ replaced = <<>>
  /\ reconnectAttempts = 0
  /\ reconnectTimer = [pending |-> FALSE, wait |-> 0]
  /\ heartbeatTimer = FALSE
  /\ heartbeatTimeoutTimer = FALSE
  /\ manualClose = FALSE
  /\ hidden \in BOOLEAN
  /\ wsStatus = "connecting"
  /\ pinged = FALSE
  /\ chatEvents = 0
  /\ chatLast = [kind |-> "none", made |-> 0, manual |-> FALSE, nth |-> 0]
  /\ NoForms
  /\ NoControls
  /\ NoIssueForm
  /\ NoAccessory
  /\ NoCharts
  /\ NoPolls

\* a user event on the chat
ChatUserEvent ==
  /\ chatEvents < MaxChatEvents
  /\ chatEvents' = chatEvents + 1

\* the sockets an event may come from: 0 is the current one
SocketsIn(states) ==
  {i \in 0..Len(replaced) : (IF i = 0 THEN socket ELSE replaced[i]) \in states}

\* socket i moves to the state to, or leaves the replaced ones when closed
Moved(c, i, to) ==
  IF i = 0 THEN [c EXCEPT !.socket = to]
  ELSE IF to = "CLOSED" THEN [c EXCEPT !.replaced = RemoveAt(@, i)]
  ELSE [c EXCEPT !.replaced[i] = to]

\* the open event of a socket
SocketOpens ==
  \E i \in SocketsIn({"CONNECTING"}) :
    /\ ChatBecomes(onOpen(Moved(ChatState, i, "OPEN")), "open", 0)
    /\ UNCHANGED chatEvents

\* the close event of a socket: the connection failed (error event first),
\* was dropped, or the closing the client asked for is over
SocketCloses ==
  \E i \in SocketsIn({"CONNECTING", "OPEN", "CLOSING"}) :
  \E jitter \in Jitters : \E failed \in BOOLEAN :
    /\ manualClose \/ reconnectAttempts < MaxReconnects
    /\ LET m == Moved(ChatState, i, "CLOSED")
       IN ChatBecomes(onClose(IF failed THEN onError(m) ELSE m, jitter), "close",
                      IF manualClose THEN chatLast.nth ELSE chatLast.nth + 1)
    /\ UNCHANGED chatEvents

\* the reconnect timeout fires: connect()
ReconnectTimerFires ==
  /\ reconnectTimer.pending
  /\ ChatBecomes(connect([ChatState EXCEPT !.reconnectTimer.pending = FALSE]),
                 "reconnect", chatLast.nth)
  /\ UNCHANGED chatEvents

\* the heartbeat interval fires; the timeout of the ping before, shorter
\* than the interval, is over by then
HeartbeatTick ==
  /\ heartbeatTimer
  /\ ~heartbeatTimeoutTimer
  /\ ChatBecomes(heartbeatTick(ChatState), "ping", chatLast.nth)
  /\ UNCHANGED chatEvents

\* no pong came in time
HeartbeatTimeout ==
  /\ heartbeatTimeoutTimer
  /\ ChatBecomes(heartbeatTimeout(ChatState), "timeout", chatLast.nth)
  /\ UNCHANGED chatEvents

\* the server answers the ping: a message event, which only an OPEN socket
\* delivers
PongArrives ==
  /\ socket = "OPEN"
  /\ pinged
  /\ ChatBecomes(onPong([ChatState EXCEPT !.pinged = FALSE]), "pong", chatLast.nth)
  /\ UNCHANGED chatEvents

ApiConnect ==
  /\ ChatUserEvent
  /\ ChatBecomes(apiConnect(ChatState), "api connect", chatLast.nth)

ApiClose ==
  /\ ChatUserEvent
  /\ ChatBecomes(apiClose(ChatState), "api close", chatLast.nth)

\* beforeunload on a page that stays (the navigation is cancelled or is a
\* download)
BeforeUnload ==
  /\ ChatUserEvent
  /\ ChatBecomes(apiClose(ChatState), "beforeunload", chatLast.nth)

VisibilityChange ==
  /\ ChatUserEvent
  /\ ChatBecomes(visibilityChange([ChatState EXCEPT !.hidden = ~@]),
                 "visibilitychange", chatLast.nth)

ChatNext ==
  \/ SocketOpens
  \/ SocketCloses
  \/ ReconnectTimerFires
  \/ HeartbeatTick
  \/ HeartbeatTimeout
  \/ PongArrives
  \/ ApiConnect
  \/ ApiClose
  \/ BeforeUnload
  \/ VisibilityChange

ChatSpec == ChatInit /\ [][ChatNext]_vars

\* a pending timeout fires in the end
ChatLiveSpec == ChatSpec /\ WF_vars(ReconnectTimerFires)

\* so does the timeout of a ping
HeartbeatLiveSpec == ChatLiveSpec /\ WF_vars(HeartbeatTimeout)

-----------------------------------------------------------------------------
(***************************************************************************)
(* Part 9: the polling loops.  waitForConfig of                            *)
(* staticfiles/components/js/component_form.js 10-30, initWhenReady of     *)
(* static/core/js/dashboard.js 185-205 (Part 7) and the prefill interval   *)
(* of static/issue_material/issue.js 50-102.  A browser shows one of the   *)
(* three pages.                                                            *)
(***************************************************************************)

\* waitForConfig gives up when tries exceeds this (component_form.js line 23)
maxTries == 40

\* the prefill interval is cleared when attempts exceeds this (issue.js 99)
maxPrefillAttempts == 20

WState ==
  [formConfig |-> formConfig, waitTimer |-> waitTimer, waitTries |-> waitTries,
   initFormCalls |-> initFormCalls]

WBecomes(w) ==
  /\ formConfig' = w.formConfig
  /\ waitTimer' = w.waitTimer
  /\ waitTries' = w.waitTries
  /\ initFormCalls' = w.initFormCalls
  /\ UNCHANGED polls
  /\ UNCHANGED <<formVars, metricVars, costingVars, fetchVars, controlVars,
                 issueVars, accVars, chartVars, chatVars>>

\* a waitForConfig that goes on retrying after the callback ran
waitForConfigWithoutReturn(w, tries) ==
  [w EXCEPT !.initFormCalls = IF w.formConfig THEN @ + 1 ELSE @,
            !.waitTimer = IF tries > maxTries THEN "none" ELSE "retry",
            !.waitTries = IF tries > maxTries THEN tries ELSE tries + 1]

\* waitForConfig (lines 18-28): the callback is initForm (line 30)
waitForConfig(w, tries) ==
  IF w.formConfig
    THEN [w EXCEPT !.initFormCalls = @ + 1, !.waitTimer = "none", !.waitTries = tries]
  ELSE IF tries > maxTries
    THEN [w EXCEPT !.waitTimer = "none", !.waitTries = tries]
  ELSE [w EXCEPT !.waitTimer = "retry", !.waitTries = tries + 1]

\* the component form after its script ran: ready (lines 10-16) has set a
\* timeout of 0 ms or a DOMContentLoaded listener for the first call of
\* waitForConfig, and the page may have defined the configuration
WaitInit ==
  /\ formConfig \in BOOLEAN
  /\ waitTimer = "ready"
  /\ waitTries = 0
  /\ initFormCalls = 0
  /\ polls = <<>>
  /\ pollLast = "none"
  /\ NoControls
  /\ NoIssueForm
  /\ NoAccessory
  /\ NoCharts
  /\ NoChat

\* the function handed to ready runs (line 30)
ReadyFires ==
  /\ waitTimer = "ready"
  /\ WBecomes(waitForConfig(WState, 0))
  /\ pollLast' = "ready"

\* the timeout of 100 ms fires (line 27)
WaitRetryFires ==
  /\ waitTimer = "retry"
  /\ WBecomes(waitForConfig(WState, waitTries))
  /\ pollLast' = "retry"

\* a later script of the page defines window.COMPONENT_FORM_CONFIG
ConfigArrives ==
  /\ ~formConfig
  /\ WBecomes([WState EXCEPT !.formConfig = TRUE])
  /\ pollLast' = "config"

\* ---- the prefill interval of a row of the issue form

\* a row as the server renders it: with or without a type, with or without
\* the hidden ids of an item
RenderedLine(uid, invType, item) ==
  IF item = Blank THEN Line(uid, uid - 1, invType, Choose({}))
  ELSE LET it == CHOOSE i \in IssueItems : i.id = item
       IN setHiddenIdsForRow(Line(uid, uid - 1, invType, Choose({})),
                             item, it.ct, DataAttr(it.stock))

\* initRow, lines 59-72: the change event it dispatches on a type select with
\* a value runs the change handler
initRowType(row) == IF row.invType # Blank THEN invTypeChange(row, row.invType) ELSE row

\* a fresh interval of tryPrefill (lines 89-90)
Poll(id) == [id |-> id, attempts |-> 0, live |-> TRUE, selected |-> 0]

\* tryPrefill (lines 85-102) up to setInterval: whether the row gets an interval
prefillStarts(row) == row.contentType # Blank /\ row.objectId # Blank

\* one tick of the interval (lines 91-100)
prefillTick(row, poll) ==
  LET found == poll.id \in {it.id : it \in row.options.items}
      it == CHOOSE i \in IssueItems : i.id = poll.id
  IN [row |-> IF found
                THEN setHiddenIdsForRow([row EXCEPT !.item = poll.id], poll.id,
                                        DataAttr(it.ct), DataAttr(it.stock))
                ELSE row,
      poll |-> [poll EXCEPT !.selected = IF found THEN @ + 1 ELSE @,
                            !.attempts = @ + 1,
                            !.live = ~(found \/ poll.attempts + 1 > maxPrefillAttempts)]]

\* the rows a rendered issue form may carry
RenderedLines ==
  {RenderedLine(1, type, item) : type \in {Blank, <<"fabric">>},
                                 item \in {Blank, <<"7">>}}

\* the issue form after initRow ran on its row (lines 50-103, 152-156)
PrefillInit ==
  /\ \E rendered \in RenderedLines :
       /\ issueRows = <<initRowType(rendered)>>
       /\ itemRequests = IF rendered.invType = Blank THEN {}
                         ELSE {[row |-> 1, type |-> rendered.invType]}
       /\ polls = IF prefillStarts(initRowType(rendered))
                    THEN (1 :> Poll(initRowType(rendered).objectId))
                    ELSE <<>>
  /\ qtyType = "number"
  /\ totalForms = 1
  /\ hasDelete = TRUE
  /\ nextRow = 2
  /\ issueSubmit = "none"
  /\ issueAlert = Blank
  /\ issueEvents = 0
  /\ issueLast = IRan("none", 0)
  /\ formConfig = TRUE
  /\ waitTimer = "none"
  /\ waitTries = 0
  /\ initFormCalls = 0
  /\ pollLast = "none"
  /\ NoControls
  /\ NoAccessory
  /\ NoCharts
  /\ NoChat

\* the interval of a row fires
PrefillTick ==
  \E uid \in DOMAIN polls : \E i \in DOMAIN issueRows :
    /\ polls[uid].live
    /\ issueRows[i].uid = uid
    /\ issueSubmit # "sent"
    /\ issueRows' = [issueRows EXCEPT ![i] = prefillTick(@, polls[uid]).row]
    /\ polls' = [polls EXCEPT ![uid] = prefillTick(issueRows[i], @).poll]
    /\ issueLast' = IRan("prefill", i)
    /\ UNCHANGED <<qtyType, totalForms, hasDelete, itemRequests, nextRow, issueSubmit,
                   issueAlert, issueEvents>>
    /\ UNCHANGED <<formConfig, waitTimer, waitTries, initFormCalls, pollLast>>
    /\ UNCHANGED <<formVars, metricVars, costingVars, fetchVars, controlVars, accVars,
                   chartVars, chatVars>>

\* the dashboard with dashboard.js, before the script runs
DashboardInit == ChartsInit /\ chartScript = "dashboard.js"

\* the page shown is the dashboard: neither the component form, which has a
\* call of waitForConfig pending or made, nor the issue form with its rows
OnDashboard == waitTimer = "none" /\ pollLast = "none" /\ issueRows = <<>>

\* the browser shows the component form, the dashboard or the issue form
PollInit ==
  /\ NoForms
  /\ \/ WaitInit
     \/ DashboardInit
     \/ PrefillInit

PollNext ==
  \/ ReadyFires
  \/ WaitRetryFires
  \/ ConfigArrives
  \/ OnDashboard /\ ScriptRuns
  \/ OnDashboard /\ ChartTimerFires
  \/ OnDashboard /\ DomContentLoaded
  \/ OnDashboard /\ ChartJsArrives
  \/ IssueTypeChange
  \/ IssueItemsAnswer
  \/ IssueItemChange
  \/ PrefillTick

PollSpec == PollInit /\ [][PollNext]_vars

-----------------------------------------------------------------------------
(* Properties of the component form                                        *)

DerivedFields == {"final_price_per_unit", "price_per_sqfoot", "final_cost"}

\* the form field of a derived value
Field(f) ==
  IF f = "final_price_per_unit" THEN finalPriceEl
  ELSE IF f = "price_per_sqfoot" THEN pricePerSqftEl
  ELSE finalCostEl

\* the select a list request fills
LevelSelect(kind) == IF kind = "qualities" THEN qualityEl ELSE productEl

Emptied(el) == Len(el.options) = 1 /\ el.options[1].value = Blank /\ el.value = Blank

CostFieldsEmpty ==
  /\ costEl = Blank
  /\ finalPriceEl = Blank
  /\ pricePerSqftEl = Blank
  /\ finalCostEl = Blank

\* C1: when a load of a select is superseded by a later load for another
\* parent value, the answer to the superseded load writes no options into
\* the select
C1_StaleLoadWritesNothing ==
  (last.kind \in {"qualities", "types"} /\ last.stale /\ last.outcome = "ok")
    => Len(LevelSelect(last.kind).options) = 1

\* C2: the options a select shows were produced by the value now selected at
\* the level above; a change of the category or of the quality empties the
\* selects below, the hidden identifiers and the cost fields
C2_OptionsOfSelectedParent ==
  /\ Len(qualityEl.options) > 1
       => Tail(qualityEl.options)
            = QualityOptions(QualityResults(toUpperCase(categoryEl)))
  /\ Len(productEl.options) > 1
       => Tail(productEl.options)
            = TypeOptions(TypeResults(toUpperCase(categoryEl), qualityEl.value))
  /\ last.kind = "category" => Emptied(qualityEl)
  /\ last.kind \in {"category", "quality"}
       => Emptied(productEl) /\ hiddenCT = Blank /\ hiddenOID = Blank /\ CostFieldsEmpty

\* C3: when the user selects the empty option of the category, the quality or
\* the product select, no request is sent and every level below is emptied:
\* the selects, the hidden identifiers and the cost fields
C3_EmptySelectionClears ==
  [][(last'.kind \in {"category", "quality", "product"} /\ last'.value = Blank)
       => /\ BagCardinality(pending') = BagCardinality(pending)
          /\ last'.kind = "category" => Emptied(qualityEl')
          /\ last'.kind \in {"category", "quality"} => Emptied(productEl')
          /\ hiddenCT' = Blank /\ hiddenOID' = Blank
          /\ CostFieldsEmpty']_vars

\* C4: after a load that failed or found nothing, the select holds one
\* placeholder option with the empty value, and no option of an earlier load
C4_FailedLoadShowsPlaceholder ==
  /\ (last.kind = "qualities" /\ last.outcome = "fail")
       => qualityEl = clearSelect("-- Error loading qualities --")
  /\ (last.kind = "qualities" /\ last.outcome = "empty")
       => qualityEl = clearSelect("-- No qualities found --")
  /\ (last.kind = "types" /\ last.outcome = "fail")
       => productEl = clearSelect("-- Error loading types --")
  /\ (last.kind = "types" /\ last.outcome = "empty")
       => productEl = clearSelect("-- No types found --")

C4_Witness ==
  /\ last.kind = "types"
  /\ last.outcome = "fail"
  /\ Len(qualityEl.options) > 1
  /\ productEl = clearSelect("-- Error loading types --")

\* the requests of the bag that ask for the kind with the parameters
Asking(b, kind, category, quality, ct, oid) ==
  LET S == {q \in BagToSet(b) : /\ q.kind = kind
                                /\ <<q.category, q.quality>> = <<category, quality>>
                                /\ <<q.ct, q.oid>> = <<ct, oid>>}
  IN  SumCounts(b, S)

Shown == <<costEl, widthEl, widthUomEl, finalPriceEl, pricePerSqftEl, finalCostEl,
           typeEl, hiddenCT, hiddenOID>>

\* C6: when the answer for an inventory item is handled twice in a row, the
\* same item with the same body, the second handling leaves the cost fields,
\* the derived fields, the type and the hidden identifiers as the first left
\* them
C6_ReselectIdempotent ==
  [][(last'.kind = "item" /\ last'.repeat) => Shown' = Shown]_vars

C6_Witness ==
  /\ last.kind = "item"
  /\ last.repeat
  /\ last.json.final_price_per_unit = Blank
  /\ finalPriceEl # Blank
  /\ logisticsEl # Blank

\* C7: after an answer for an inventory item is handled, each derived field
\* holds the value of the answer when the answer has one, and else the value
\* computeClientMetrics makes of the cost, width and unit of that answer
C7_ServerElseClient ==
  (last.kind = "item" /\ last.json.ok)
    => LET json    == last.json
           metrics == computeClientMetrics(Or(json.cost_per_unit, json.price),
                                           json.width, Or(json.width_uom, <<"inch">>),
                                           Or(logisticsEl, <<"0">>))
       IN  \A f \in DerivedFields :
             Field(f) = IF json[f] # Blank THEN json[f] ELSE metrics[f]

\* what computeClientMetrics makes of the form's fields
FormMetrics ==
  computeClientMetrics(costEl, widthEl, Or(widthUomEl, <<"inch">>),
                       Or(logisticsEl, <<"0">>))

C9_DerivedNonNegative ==
  \A f \in DerivedFields : ~IsNegative(Field(f))

-----------------------------------------------------------------------------
(* Properties of computeClientMetrics                                      *)

\* the number of cents a text with two decimals shows
Cents(text) == LET n == ToNumber(text) IN (n.num * 100) \div n.den

\* C10: for a width above zero, final_cost equals final_price_per_unit, both
\* are price * (1 + logistics / 100) rounded to two decimals, and
\* price_per_sqfoot is not negative
C10_MetricsOfPositiveWidth ==
  (mOut # NoMetrics /\ parseNum(mIn.width).num > 0)
    => LET price     == parseNum(mIn.price)
           logistics == parseNum(Or(mIn.logistics, <<"0">>))
           n == price.num * (100 * logistics.den + logistics.num)
           d == price.den * logistics.den
           c == Cents(mOut.final_price_per_unit)
       IN  /\ mOut.final_cost = mOut.final_price_per_unit
           /\ 2 * Abs(c * d - n) <= d
           /\ ~IsNegative(mOut.price_per_sqfoot)

\* C11: for a width of zero, and for every width that makes the denominator
\* zero or less, price_per_sqfoot is 0 (as text, 0.0000), for either unit
C11_NoWidthNoSqft ==
  (mOut # NoMetrics /\ Denom(parseNum(mIn.width), mIn.uom).num <= 0)
    => mOut.price_per_sqfoot = <<"0", ".", "0", "0", "0", "0">>

C11_Witness ==
  /\ mOut # NoMetrics
  /\ mIn.width = <<"-", "3">>
  /\ mIn.uom = <<"cm">>
  /\ mIn.price = <<"1", "0">>
  /\ mOut.final_price_per_unit = <<"1", "0", ".", "0", "0">>
  /\ mOut.price_per_sqfoot = <<"0", ".", "0", "0", "0", "0">>


-----------------------------------------------------------------------------
(* Properties of the costing form                                          *)

\* the compute_sku requests of a batch that are in flight
SkuPending(b) == {r \in cPending : r.kind = "sku" /\ r.batch = b}

\* C12: however many color toggles and dependency changes fall within one
\* debounce window, one timer fires for them: it leaves no timer armed, it
\* follows at least one debounced call, and the batch it starts sends one
\* request per color checked at the firing; nothing else starts a batch
C12_OneBatchPerBurst ==
  /\ [](clast.kind = "fire"
          => /\ clast.idx >= 1
             /\ skuPreviewTimer = 0
             /\ (clast.outcome = "batch") = (Checked(CState) # <<>>)
             /\ clast.outcome = "batch"
                  => /\ clast.batch = Len(batches)
                     /\ batches[clast.batch].colors = Checked(CState)
                     /\ SkuPending(clast.batch)
                          = SkuRequests(clast.batch, Len(Checked(CState))))
  /\ [][Len(batches') # Len(batches)
          => clast'.kind = "fire" /\ Len(batches') = Len(batches) + 1]_vars

C12_Witness ==
  /\ clast.kind = "fire"
  /\ clast.idx = 2
  /\ clast.outcome = "batch"
  /\ Len(Checked(CState)) = 2
  /\ Cardinality(SkuPending(clast.batch)) = 2

\* nothing is awaited: no request in flight and no timer armed
CostingQuiet == cPending = {} /\ skuPreviewTimer = 0 /\ initTimers = <<>>

\* C13: whenever nothing is awaited, the SKU field is non-empty only if exactly
\* one color is checked, and then it holds the SKU of that color; with no color
\* or several colors checked it is empty
C13_SkuFieldOfOneColor ==
  (CostingQuiet /\ skuInput # Blank)
    => /\ Len(Checked(CState)) = 1
       /\ skuInput = ComputedSku(nameEl, Checked(CState)[1].id)

AllComplete == \A n \in 1..Len(batches) : Complete(batches[n])

\* C14: when the batches have overlapped and all have completed, the preview
\* list and the SKU field show the results of the batch scheduled last,
\* whatever the order of the responses
C14_LastBatchShown ==
  (Len(batches) >= 2 /\ AllComplete /\ skuPreviewList.kind = "list")
    => /\ skuPreviewList.content = PreviewEntries(batches[Len(batches)])
       /\ skuInput = SkuFieldOf(batches[Len(batches)])

\* C15: a batch sends one compute_sku request per checked color and writes
\* the preview list once, when the last of its answers has arrived: one entry
\* per color, in the order of the checkboxes, whatever the order of arrival;
\* a failed request gives an entry with an empty SKU
C15_OneEntryPerColor ==
  /\ [](clast.kind = "fire" /\ clast.outcome = "batch"
          => Cardinality(SkuPending(clast.batch)) = Len(batches[clast.batch].colors))
  /\ [](clast.kind = "sku" /\ Complete(batches[clast.batch])
          => /\ skuPreviewList.kind = "list"
             /\ Len(skuPreviewList.content) = Len(batches[clast.batch].colors)
             /\ \A i \in 1..Len(batches[clast.batch].colors) :
                  skuPreviewList.content[i]
                    = EntryText(batches[clast.batch].colors[i],
                                batches[clast.batch].results[i])
             /\ clast.outcome = "fail"
                  => batches[clast.batch].results[clast.idx] = Blank)
  /\ [][clast'.kind = "sku" /\ ~Complete(batches'[clast'.batch])
          => skuPreviewList' = skuPreviewList /\ skuInput' = skuInput]_vars

\* the answer for the first color arrives after the failed one for the second
C15_Witness ==
  /\ clast.kind = "sku"
  /\ clast.idx = 1
  /\ clast.outcome = "ok"
  /\ Len(batches[clast.batch].colors) = 2
  /\ Complete(batches[clast.batch])
  /\ batches[clast.batch].results[2] = Blank
  /\ skuPreviewList.content
       = << <<"Red", ": ", "SKU", "Shirt", "c1">>, <<"Blue", ": ", "(preview unavailable)">> >>
  /\ skuInput = Blank

\* C16: the selection of a component sends a request for its colors; when the
\* answer to a colors request fails or is empty, the container shows the
\* no-colors placeholder, the preview list is reset and the SKU field is empty
C16_NoColorsClearsSku ==
  /\ (clast.kind = "component" /\ clast.comp # Blank)
       => \E r \in cPending :
            r.kind = "colors" /\ r.comp = clast.comp /\ r.event = asked.event
  /\ (clast.kind = "colors" /\ clast.outcome \in {"fail", "empty"})
       => /\ colorsContainer = NoColorsText
          /\ skuPreviewList = NoColorsSelected
          /\ skuInput = Blank

\* a SKU had been previewed for one color; then the user picked component B and
\* its colors request failed
C16_Witness ==
  /\ clast.kind = "colors"
  /\ clast.outcome = "fail"
  /\ clast.comp = ComponentB
  /\ componentSelect = ComponentB
  /\ Len(batches) = 1
  /\ batches[1].results = <<ComputedSku(<<"Shirt">>, <<"c1">>)>>
  /\ colorsContainer = NoColorsText
  /\ skuInput = Blank

\* C17: a triggering event causes at most one request to each lookup endpoint
C17_OneRequestPerEndpoint == asked.details <= 1 /\ asked.colors <= 1

-----------------------------------------------------------------------------
(* Properties of the requests that change data                             *)

\* the call of safeFetch has ended
SafeFetchEnded == fOut # NotEnded

\* C18: on a non-success status safeFetch fails with an error that carries the
\* status and, when the body is JSON, the parsed body; when the body is not
\* JSON, the status and the text of the body
C18_ErrorCarriesParsedBody ==
  (SafeFetchEnded /\ ~IsOk(response.status))
    => /\ fOut.kind = "throw"
       /\ fOut.status = response.status
       /\ JSONparse(response.text).ok
            => fOut.body = JsonBody(JSONparse(response.text).value)
       /\ (~JSONparse(response.text).ok /\ response.text # Blank)
            => fOut.body = TextBody(response.text)

\* the token the page gives to a script: the configuration or the hidden input
\* for the component form, the csrftoken cookie for the others
TokenOf(script) ==
  IF script = "component_form"
  THEN Or(cfgCsrfToken, IF csrfInput = Null THEN Blank ELSE csrfInput)
  ELSE IF getCookie(documentCookie, "csrftoken") = Null THEN Blank
  ELSE getCookie(documentCookie, "csrftoken")

\* C19 as stated: every POST a script sends carries, in the X-CSRFToken header,
\* the token the page gives to the script
C19_EveryPostCarriesToken ==
  (sent.method = "POST" /\ TokenOf(sent.script) # Blank)
    => sent.csrf = TokenOf(sent.script)

\* C19, amended: every POST a script sends with fetch has the X-CSRFToken
\* header, and the header holds the token the page gives to the script when
\* there is one; the form that the notifications script submits when its
\* request did not succeed is a POST without the header
C19_FetchPostCarriesToken ==
  /\ (sent.method = "POST" /\ sent.via = "fetch")
       => /\ sent.csrf # NoHeader
          /\ TokenOf(sent.script) # Blank => sent.csrf = TokenOf(sent.script)
  /\ (sent.method = "POST" /\ sent.via = "submit")
       => sent.script = "notifications" /\ sent.csrf = NoHeader

\* a color is created on a page whose token is in the hidden input only
C19_Witness ==
  /\ call = "createColor"
  /\ sent.method = "POST"
  /\ sent.via = "fetch"
  /\ cfgCsrfToken = Blank
  /\ csrfInput = <<"tokF">>
  /\ sent.csrf = <<"tokF">>

-----------------------------------------------------------------------------
(* Properties of the component form without a qualities endpoint           *)

-----------------------------------------------------------------------------
(* Properties of the controls that disable themselves                      *)

\* C21: once a mark-read request of a notification has been answered with
\* ok:true, the button of that notification is replaced by the badge "Read",
\* and from the click on no second request is issued for it: while the
\* request is in flight and after the answer, exactly one was issued
C21_ReadBadgeAndOneRequest ==
  \A n \in Notifs :
    /\ ended[n] = "ok" =>
         /\ buttons[n].shown = "badge"
         /\ buttons[n].label = "Read"
         /\ issued[n] = 1
    /\ RequestsOf(inFlight, n) # {} => issued[n] = 1 /\ buttons[n].disabled

\* a notification was marked read while the other one was being marked
C21_Witness ==
  \E n, m \in Notifs :
    /\ ended[n] = "ok"
    /\ buttons[n].shown = "badge"
    /\ RequestsOf(inFlight, m) # {}

C23_EnabledAfterAnswer ==
  \A c \in Controls :
    ctlLast.kind = "answer" /\ ctlLast.control = c /\ buttons[c].shown = "button"
      => ~buttons[c].disabled

\* the request for which the current button of control c was disabled
OwnRequests(c) ==
  {r \in RequestsOf(inFlight, c) : c = "addColor" => r.gen = colorWidget.gen}

\* C23 as amended: the stage-action button, the color Add button, the
\* attendance button and the submit button of an ajax form are disabled only
\* while their own request is in flight, so each is enabled when its request
\* has ended, whatever the answer; the mark-read button is never enabled again
\* after its click
C23_EnabledAfterAnswerButMarkRead ==
  /\ \A c \in Controls \ Notifs :
       ~pageLeft[PageOf(c)] /\ buttons[c].disabled => OwnRequests(c) # {}
  /\ \A c \in Controls \ (Notifs \cup {"addColor"}) :
       ctlLast.kind = "answer" /\ ctlLast.control = c => ~buttons[c].disabled
  /\ \A n \in Notifs : issued[n] > 0 => buttons[n].disabled

\* a stage action has succeeded, the attendance request has failed and the
\* color was added: the three buttons are enabled again
C23_Witness ==
  /\ \E c \in StageForms : ended[c] = "ok" /\ ~buttons[c].disabled
  /\ ended["attendance"] = "error" /\ ~buttons["attendance"].disabled
  /\ ended["addColor"] = "ok" /\ ~buttons["addColor"].disabled
  /\ inFlight = {}

\* C24: of each control that disables itself during its request (stage-action
\* form, mark-read button, attendance button, ajax form, color Add button) at
\* most one request is in flight at any time
C24_OneRequestPerControl ==
  \A c \in Controls : Cardinality(RequestsOf(inFlight, c)) <= 1

-----------------------------------------------------------------------------
(* Properties of the issue-material form                                   *)

\* C25: the issue-material form is sent only if every row that is not marked
\* for deletion has an item (content_type_id and object_id set), a quantity
\* above zero and, where .available-stock shows a figure, a quantity that
\* does not exceed it; a submission that is blocked shows a message
C25_SentOnlyIfValid ==
  /\ issueSubmit = "sent" =>
       \A i \in DOMAIN issueRows :
         ~issueRows[i].del =>
           /\ issueRows[i].contentType # Blank
           /\ issueRows[i].objectId # Blank
           /\ Greater(QtyOf(issueRows[i].qty), Zero)
           /\ ~parseFloat(issueRows[i].stock).nan =>
                AtMost(QtyOf(issueRows[i].qty), parseFloat(issueRows[i].stock))
  /\ issueLast.kind = "submit" /\ issueSubmit = "blocked" => issueAlert # Blank

-----------------------------------------------------------------------------
(* Properties of the accessory line                                        *)

\* the quantity in the quantity input, not below zero
ShownQuantity ==
  LET q == NumOr0(ToNumber(accessoryQuantityEl))
  IN IF q.num < 0 THEN Zero ELSE q

\* C26: with an accessory selected, when compute_accessory_line is
\* unreachable or answers with an error the line total is written as the unit
\* price times the quantity of the request (not below zero), with two
\* decimals; and when that was the last request in flight, the line total
\* is the unit price times the quantity that the quantity input holds
C26_LineTotalOfShownQuantity ==
  /\ accLast.kind = "answer" /\ accLast.outcome # "ok" =>
       accessoryLineTotalHidden
         = fmt2(Times(NumOr0(ToNumber(accessoryUnitPriceHidden)), accLast.qty))
  /\ accLast.kind = "answer" /\ accLast.outcome # "ok" /\ accPending = {}
       /\ accessorySelect # Blank =>
       accessoryLineTotalHidden
         = fmt2(Times(NumOr0(ToNumber(accessoryUnitPriceHidden)), ShownQuantity))


-----------------------------------------------------------------------------
(***************************************************************************)
(* Properties of the dashboard charts                                      *)
(***************************************************************************)

\* the live chart instances drawn on a canvas
LiveOn(canvas) == {c \in liveCharts : c.canvas = canvas}

\* C27: however often the chart initialisation ran, every canvas carries at
\* most one live chart instance, and a live instance is the one the registry
\* holds under the key of its canvas: the instance registered before it was
\* destroyed before it was created.
C27_OneLiveChartPerCanvas ==
  /\ \A canvas \in ChartCanvases : Cardinality(LiveOn(canvas)) <= 1
  /\ \A key \in ChartKeys : \A c \in LiveOn(CanvasOf(key)) :
       instances.defined /\ instances.at[key] = c.id

\* the initialisation ran again and replaced a chart by a later one
C27_Witness ==
  /\ \E c \in liveCharts : c.id > Cardinality(ChartKeys)
  /\ liveCharts # {}
  /\ chartLast \in {"timer", "DOMContentLoaded", "script"}
  /\ \A canvas \in canvases : Cardinality(LiveOn(canvas)) = 1
  /\ canvases = ChartCanvases


-----------------------------------------------------------------------------
(***************************************************************************)
(* Properties of the chat client                                           *)
(***************************************************************************)

\* a close event the user did not ask for was handled
ClosedUnasked == chatLast.kind = "close" /\ ~chatLast.manual

\* the delay of the n-th reconnect in a row lies between the backoff and the
\* backoff plus the jitter
DelayOfNth(wait, n) ==
  LET backoff == Min(1000 * 2 ^ (n - 1), 30000)
  IN backoff <= wait /\ wait < backoff + 500

\* C28: the chat client reconnects with exponential backoff.  After a close
\* event the user did not ask for, the reconnect timer is pending with the
\* delay of the n-th reconnect in a row, min(1000 * 2^(n-1), 30000) ms plus
\* a jitter below 500 ms; the attempt counter is 0 when a socket has opened;
\* and after such a close event the client eventually calls connect from the
\* timer or has a socket connecting or open.
C28_ReconnectsWithBackoff ==
  /\ [](ClosedUnasked =>
          /\ reconnectTimer.pending
          /\ chatLast.nth >= 1
          /\ DelayOfNth(reconnectTimer.wait, chatLast.nth))
  /\ [](chatLast.kind = "open" => reconnectAttempts = 0)
  /\ (ClosedUnasked ~>
        (chatLast.kind = "reconnect" \/ socket \in {"CONNECTING", "OPEN"}))

\* the sixth failure in a row: the delay has reached its maximum
C28_Witness ==
  /\ ClosedUnasked
  /\ chatLast.nth = 6
  /\ reconnectTimer.wait = 30499
  /\ socket = "CLOSED"

\* C29: whenever the current socket is OPEN and the document is visible, the
\* heartbeat interval runs, also after the page was hidden and shown again
\* and after a reconnect replaced the socket.
C29_HeartbeatWhileOpenAndVisible ==
  socket = "OPEN" /\ ~hidden => heartbeatTimer

\* C30: once manualClose is set, by liveLinenChat.close() or on unload, no
\* step other than liveLinenChat.connect() creates a WebSocket: not the
\* reconnect timer that was pending, not a close event, not visibilitychange.
C30_NoSocketAfterManualClose ==
  chatLast.manual /\ chatLast.kind # "api connect" => chatLast.made = 0


\* the close event of a replaced socket is handled in this step
ReplacedSocketCloses ==
  chatLast'.kind = "close" /\ Len(replaced') < Len(replaced)

\* C31: at most one WebSocket of the client is OPEN or CONNECTING (a replaced
\* socket never is), the client keeps one reconnect timer, and the close
\* event of a replaced socket neither stops the heartbeat of the current
\* socket nor schedules a reconnect against it.
C31_ReplacedSocketLeavesCurrentAlone ==
  [][/\ \A i \in 1..Len(replaced') : replaced'[i] \notin {"OPEN", "CONNECTING"}
     /\ ReplacedSocketCloses =>
          /\ heartbeatTimer' = heartbeatTimer
          /\ heartbeatTimeoutTimer' = heartbeatTimeoutTimer
          /\ reconnectTimer' = reconnectTimer
          /\ reconnectAttempts' = reconnectAttempts]_vars


\* a ping went out and its timeout was set
PingSent == chatLast.kind = "ping" /\ pinged /\ heartbeatTimeoutTimer

\* C32: after a ping, either a pong arrives and cancels the timeout, or the
\* timeout closes the socket, after which the close event schedules a
\* reconnect unless the chat was closed by the user; and a ping that is
\* unanswered on an open socket keeps its timeout as long as the heartbeat
\* runs, whatever pong arrived before.
C32_PingIsAnsweredOrSocketCloses ==
  /\ [](chatLast.kind = "pong" => ~heartbeatTimeoutTimer)
  /\ [](chatLast.kind = "timeout" => socket \notin {"OPEN", "CONNECTING"})
  /\ [](chatLast.kind = "close" /\ ~chatLast.manual => reconnectTimer.pending)
  /\ [](pinged /\ socket = "OPEN" /\ heartbeatTimer => heartbeatTimeoutTimer)
  /\ (PingSent ~> (chatLast.kind = "pong" \/ socket # "OPEN"))


\* C33: whatever rows were added and removed, the index a new row gets for
\* __prefix__ differs from the index of every row still in the form, and
\* TOTAL_FORMS is above every index in use.
C33_NewIndexIsFree ==
  /\ \A i, j \in DOMAIN issueRows : i # j => issueRows[i].idx # issueRows[j].idx
  /\ \A i \in DOMAIN issueRows : issueRows[i].idx < totalForms


\* no items-by-type request of the row is in flight
ItemsSettled(row) == \A r \in itemRequests : r.row # row.uid

\* C34: once the item requests of a row have completed and its item select
\* was loaded, the select holds the items of the inventory type chosen in
\* the row, none without a type: the answer for an earlier type that comes
\* after the type was changed or cleared does not fill the select.
C34_ItemsOfTheCurrentType ==
  \A i \in DOMAIN issueRows :
    ItemsSettled(issueRows[i]) /\ issueRows[i].options.label = "choose item" =>
      issueRows[i].options.items
        = IF issueRows[i].invType = Blank THEN {} ELSE ItemsOfType(issueRows[i].invType)


\* no details or colors request of the costing form is in flight
ComponentSettled == \A r \in cPending : r.kind \notin {"details", "colors"}

\* the ids of the color boxes that are shown
RECURSIVE IdsOf(_)
IdsOf(boxes) ==
  IF boxes = <<>> THEN <<>> ELSE <<Head(boxes).id>> \o IdsOf(Tail(boxes))

\* the answer to a details or colors request for a component that is no
\* longer selected has arrived
StaleComponentAnswer ==
  clast'.kind \in {"details", "colors"} /\ clast'.comp # componentSelect

\* C35: once its requests have completed, the color boxes of the costing form
\* are those of the selected component and the color area is not left in its
\* loading state; the answer to a details or colors request of an earlier
\* selection overwrites neither the width, price and final cost nor the
\* colors of the later one.
C35_ShowsTheCurrentComponent ==
  /\ [](ComponentSettled => colorsContainer # LoadingColorsText)
  /\ [](ComponentSettled /\ colorsContainer.kind = "boxes" =>
          IdsOf(colorsContainer.content) = IdsOf(ServerColors(componentSelect)))
  /\ [][StaleComponentAnswer =>
          /\ colorsContainer' = colorsContainer
          /\ componentFields' = componentFields]_vars


\* the attendance request has succeeded and its then, catch and finally have run
AttendanceRecorded == ctlLast = KRan("answer", "attendance", "ok")

\* C36: after a successful attendance request, once the handlers of the
\* request have run, the login/logout button is enabled and its label is
\* that of the state the server returned: Logout when only login_time is
\* set, Login when logout_time is set as well.
C36_AttendanceLabelIsTheNewState ==
  AttendanceRecorded =>
    /\ ~buttons["attendance"].disabled
    /\ shownText["dashboard"] = "Logged in" => buttons["attendance"].label = "Logout"
    /\ shownText["dashboard"] = "Logged out" => buttons["attendance"].label = "Login"


-----------------------------------------------------------------------------
(***************************************************************************)
(* Properties of the stock-used chart                                      *)
(***************************************************************************)

\* the labels of the datasets of a chart that are shown, from index `from` on
VisibleLabels(chart, from) ==
  {datasets[chart][i].label :
     i \in {j \in from..Len(datasets[chart]) : ~datasets[chart][j].hidden}}

\* the hidden flags of the datasets with the indices of a set, chart by chart
HiddenFlags(sets, indices) ==
  [c \in DOMAIN sets |->
     [i \in indices \cap (1..Len(sets[c])) |-> sets[c][i].hidden]]

BaseIndices == 1..baseOrderIndex

OrderIndices == (baseOrderIndex + 1)..(baseOrderIndex + Len(Orders))

\* C37: in a stock-used chart at most one per-order dataset is visible; in
\* the chart of the registry it is the one labelled 'Order #' plus the value
\* of the select, none for the totals-only choice.  A change of the select
\* leaves the visibility of the three base series as it was, and a change of
\* a checkbox leaves the visibility of every per-order dataset as it was.
C37_OneOrderSeriesVisible ==
  /\ [](\A c \in DOMAIN datasets :
          Cardinality({i \in OrderIndices \cap (1..Len(datasets[c])) :
                         ~datasets[c][i].hidden}) <= 1)
  /\ [](instances.at["stockUsed"] # 0 =>
          VisibleLabels(instances.at["stockUsed"], baseOrderIndex + 1)
            = IF orderSelect.value \in {"", "__none__"} THEN {}
              ELSE {OrderLabel(orderSelect.value)})
  /\ [][/\ chartLast' = "orderSelect" =>
            HiddenFlags(datasets', BaseIndices) = HiddenFlags(datasets, BaseIndices)
        /\ chartLast' = "toggle" =>
            HiddenFlags(datasets', OrderIndices) = HiddenFlags(datasets, OrderIndices)]_vars

\* after changes of both kinds the second order is shown alone, next to a
\* base series that was hidden and another that is shown
C37_Witness ==
  /\ instances.at["stockUsed"] # 0
  /\ stockEvents = MaxStockEvents
  /\ orderSelect.value = Orders[2]
  /\ chartLast = "orderSelect"
  /\ VisibleLabels(instances.at["stockUsed"], 1)
       = {BaseLabels[2], BaseLabels[3], OrderLabel(Orders[2])}
  /\ seriesBoxes[BaseLabels[1]] = FALSE
  /\ seriesBoxes[BaseLabels[2]] = TRUE


-----------------------------------------------------------------------------
(***************************************************************************)
(* Properties of the polling loops                                         *)
(***************************************************************************)

\* waitForConfig makes at most maxTries + 1 retries, calls initForm at most
\* once, only with the configuration, and retries no more after the call
WaitForConfigEnds ==
  /\ waitTries <= maxTries + 1
  /\ initFormCalls <= 1
  /\ initFormCalls = 1 => formConfig
  /\ waitTimer # "none" => initFormCalls = 0

\* an interval of initWhenReady has made fewer than max checks, and each call
\* of initWhenReady has run its function at most once
InitWhenReadyEnds ==
  /\ \A i \in 1..Len(chartTimers) : chartTimers[i] < max
  /\ chartScript = "dashboard.js" => fnRuns + Len(chartTimers) <= scriptLoads

\* a prefill interval makes at most maxPrefillAttempts + 1 checks and selects
\* at most once, after which it is cleared
PrefillEnds ==
  \A uid \in DOMAIN polls :
    /\ polls[uid].attempts <= maxPrefillAttempts + 1
    /\ polls[uid].selected <= 1
    /\ polls[uid].live =>
         polls[uid].attempts <= maxPrefillAttempts /\ polls[uid].selected = 0

\* every check of a loop counts: it ends the loop or raises its counter
EveryCheckCounts ==
  /\ pollLast' = "retry" => waitTimer' = "none" \/ waitTries' = waitTries + 1
  /\ chartLast' = "timer" /\ chartScript = "dashboard.js" =>
       \/ Len(chartTimers') = Len(chartTimers) - 1
       \/ \E i \in 1..Len(chartTimers) :
            chartTimers' = [chartTimers EXCEPT ![i] = @ + 1]
  /\ issueLast'.kind = "prefill" =>
       \A uid \in DOMAIN polls :
         \/ polls'[uid] = polls[uid]
         \/ /\ polls'[uid].attempts = polls[uid].attempts + 1
            /\ polls[uid].live

\* C38: every polling loop ends and runs its payload at most once:
\* waitForConfig makes at most 41 retries and calls initForm at most once,
\* never without the configuration; the interval of initWhenReady makes at
\* most 40 checks and the function runs at most once for each call; the
\* prefill interval makes at most 21 checks and stops at its first match.
C38_PollingLoopsEnd ==
  /\ [](WaitForConfigEnds /\ InitWhenReadyEnds /\ PrefillEnds)
  /\ [][EveryCheckCounts]_vars

\* the configuration was found by the last retry and initForm ran once
C38_Witness ==
  /\ pollLast = "retry"
  /\ waitTries = maxTries + 1
  /\ initFormCalls = 1
  /\ waitTimer = "none"

\* a prefill interval that found its option and one that gave up after its
\* last check
C38_PrefillWitness ==
  \E uid \in DOMAIN polls :
    /\ ~polls[uid].live
    /\ \/ polls[uid].selected = 1 /\ polls[uid].attempts > 1
       \/ polls[uid].selected = 0 /\ polls[uid].attempts = maxPrefillAttempts + 1

=============================================================================
